---- MODULE Spec2Model ----
(***************************************************************************)
(* Downstream processing of the Toronto bicycle parking pipeline:          *)
(*   Data Pipeline/downstream.py     group_proximate_rings,                *)
(*                                   group_proximate_racks,                *)
(*                                   drop_mapped_city_lockers              *)
(*   Data Pipeline/data_pipeline.py  run_pipeline, "City Data Selection"   *)
(*                                                                         *)
(* A GeoDataFrame is a sequence of records (rows, in index order); a       *)
(* column is a record field.  Geometries are kept in the planar            *)
(* coordinates of EPSG:32617, in whole metres, as exact rationals          *)
(* [x, y, d] standing for the point (x/d, y/d); the reprojection to and    *)
(* from EPSG:4326 (pyproj) is outside the model.  Text that the code       *)
(* takes apart (reference ids, operator names) is a sequence of            *)
(* characters or words; other text is a TLA+ string.                       *)
(***************************************************************************)
EXTENDS Integers, Sequences, FiniteSets, TLC

VARIABLES
    pc,               \* position of the program: the pending call, or how it ended
    error,            \* the exception that ended the call, "none" otherwise
    radius,           \* the radius argument of the pending call
    rings,            \* argument of group_proximate_rings
    out_rings,        \* its return value
    rings_members,    \* for each row of out_rings, the rows of rings dissolved into it
    racks,            \* argument of group_proximate_racks
    out_racks,        \* its return value
    racks_members,    \* for each row of out_racks, the rows of racks it stands for
    lockers,          \* the city lockers (toronto_lockers, normalized)
    osm_combined,     \* the OpenStreetMap rows
    lockers_unmapped, \* return value of drop_mapped_city_lockers
    city_loaded,      \* the city rows as loaded, by dataset name
    city_data,        \* the city rows still selected, by dataset name
    id_lists,         \* by ref column, the ids OpenStreetMap rows refer to
    osm_centroid,     \* the OpenStreetMap rows kept
    city_exclusions,  \* open_toronto_ca_exclusions.json
    city_unclustered_combined, \* the city rows selected, before any grouping
    city_full,        \* the city rows after the grouping operations
    all_sources,      \* city_full, osm_centroid and lockers_unmapped together
    fs_dirs,          \* the folders that exist under the working directory
    fs_files,         \* the files that exist, each with its content
    fs_writes,        \* the files opened for writing, in the order of the writes
    save_call,        \* the arguments of the pending call of save_output
    archive_name,     \* run_pipeline: the archive folder of today, or None
    datasets,         \* the city datasets as the source answers, in sources order
    statuses,         \* statuses["city"], by dataset name
    dataset_index,    \* the dataset the update loop handles next
    run,              \* which run of the downstream stages this is
    first_run         \* the canonical sets the first run produced

vars == <<pc, error, radius, rings, out_rings, rings_members,
          racks, out_racks, racks_members,
          lockers, osm_combined, lockers_unmapped, city_loaded, city_data,
          id_lists, osm_centroid,
          city_exclusions, city_unclustered_combined, city_full, all_sources,
          fs_dirs, fs_files, fs_writes, save_call, archive_name, datasets,
          statuses, dataset_index, run, first_run>>

\* the variables of the calls of the grouping operations
grouping_vars == <<rings, out_rings, rings_members, racks, out_racks, racks_members>>

\* the variables of the city data selection and of the locker step
selection_vars == <<lockers, osm_combined, lockers_unmapped, city_loaded,
                    city_data, id_lists, osm_centroid>>

\* the variables of the stages after the city data selection
downstream_vars == <<city_exclusions, city_unclustered_combined, city_full,
                     all_sources>>

\* the variables of the file output and of the update of the sources
files_vars == <<fs_dirs, fs_files, fs_writes, save_call, archive_name,
                datasets, statuses, dataset_index>>

\* the variables that tell a repeated run from the first
runs_vars == <<run, first_run>>

----------------------------------------------------------------------------
(* Missing values.                                                         *)

\* pd.NA / np.nan in a text column
NA == "<missing>"

\* pd.NA in an Int64 column (capacity, quantity)
NAInt == -1

\* pd.NA in a column whose text is modelled as a sequence of characters
NASeq == <<"<missing>">>

----------------------------------------------------------------------------
(* Bounds of the model.                                                    *)

MaxRings == 3
MaxRacks == 3
MaxOsm == 2
MaxLockers == 2
MaxCityRacks == 2
MaxPipelineRacks == 2
MaxPipelineBollards == 2
MaxExclusions == 2

----------------------------------------------------------------------------
(* Program constants.                                                      *)

\* def group_proximate_rings(rings, radius=5.0)
RingsDefaultRadius == 5

\* def group_proximate_racks(racks, radius=30.0)
RacksDefaultRadius == 30

\* DBSCAN(eps=30.0, min_samples=2) in group_proximate_racks
RacksEps == 30

\* DBSCAN(eps=radius, min_samples=1) in group_proximate_rings
RingsMinSamples == 1

\* def drop_mapped_city_lockers(lockers, osm, radius: int = 200)
LockersDefaultRadius == 200

\* DBSCAN(eps=30.0, min_samples=2) in group_proximate_racks
RacksMinSamples == 2

----------------------------------------------------------------------------
(* Small helpers on sequences and sets of numbers.                         *)

Range(s) == {s[i] : i \in 1..Len(s)}

RECURSIVE SumOver(_, _)
SumOver(f, S) ==
    IF S = {} THEN 0
    ELSE LET i == CHOOSE k \in S : TRUE IN f[i] + SumOver(f, S \ {i})

MinOf(S) == CHOOSE m \in S : \A k \in S : m <= k

\* the members of a set of row numbers, in index order
RECURSIVE Ordered(_)
Ordered(S) ==
    IF S = {} THEN <<>>
    ELSE LET m == MinOf(S) IN <<m>> \o Ordered(S \ {m})

RECURSIVE Flatten(_)
Flatten(ss) == IF ss = <<>> THEN <<>> ELSE Head(ss) \o Flatten(Tail(ss))

Abs(a) == IF a < 0 THEN -a ELSE a

RECURSIVE GCD(_, _)
GCD(a, b) == IF b = 0 THEN a ELSE GCD(b, a % b)

----------------------------------------------------------------------------
(* Text as a sequence of characters.                                       *)

Chars(s) == [i \in 1..Len(s) |-> SubSeq(s, i, i)]

\* str(x): a missing value reads "<NA>"
Str(x) == IF x = NASeq THEN Chars("<NA>") ELSE x

\* whitespace: what str.strip() removes and \s matches
IsSpace(ch) == ch \in {" ", "\t", "\n"}

\* str.lower(), as re.IGNORECASE compares letters
Lower(ch) ==
    LET upper == "ABCDEFGHIJKLMNOPQRSTUVWXYZ"
        lower == "abcdefghijklmnopqrstuvwxyz"
    IN IF \E i \in 1..Len(upper) : SubSeq(upper, i, i) = ch
       THEN LET i == CHOOSE j \in 1..Len(upper) : SubSeq(upper, j, j) = ch
            IN SubSeq(lower, i, i)
       ELSE ch

\* str.strip()
RECURSIVE LStrip(_)
LStrip(s) == IF s # <<>> /\ IsSpace(Head(s)) THEN LStrip(Tail(s)) ELSE s

RECURSIVE RStrip(_)
RStrip(s) ==
    IF s # <<>> /\ IsSpace(s[Len(s)]) THEN RStrip(SubSeq(s, 1, Len(s) - 1)) ELSE s

Strip(s) == RStrip(LStrip(s))

\* str.split(sep) for a separator of one character: the pieces between the
\* separators, empty pieces included
RECURSIVE Split(_, _)
Split(s, sep) ==
    IF \E i \in 1..Len(s) : s[i] = sep
    THEN LET i == MinOf({j \in 1..Len(s) : s[j] = sep})
         IN <<SubSeq(s, 1, i - 1)>> \o Split(SubSeq(s, i + 1, Len(s)), sep)
    ELSE <<s>>

\* the word w, letters compared without case, stands in s from position i
WordAt(s, i, w) ==
    /\ i + Len(w) - 1 <= Len(s)
    /\ \A k \in 1..Len(w) : Lower(s[i + k - 1]) = w[k]

\* the first position from i on that holds no whitespace
RECURSIVE SkipSpaces(_, _)
SkipSpaces(s, i) ==
    IF i <= Len(s) /\ IsSpace(s[i]) THEN SkipSpaces(s, i + 1) ELSE i

\* re.search(r"city\s*?of\s*?toronto", s, re.IGNORECASE) finds a match
MatchesCityOfToronto(s) ==
    \E i \in 1..Len(s) :
        /\ WordAt(s, i, Chars("city"))
        /\ LET j == SkipSpaces(s, i + 4)
           IN /\ WordAt(s, j, Chars("of"))
              /\ WordAt(s, SkipSpaces(s, j + 2), Chars("toronto"))

----------------------------------------------------------------------------
(* Nullable booleans (pandas "boolean" dtype): "True", "False" or NA, with *)
(* Kleene's connectives; a mask selects the rows where it is "True".       *)

Bool3(b) == IF b THEN "True" ELSE "False"

Not3(a) == IF a = NA THEN NA ELSE Bool3(a = "False")

Or3(a, b) ==
    IF a = "True" \/ b = "True" THEN "True"
    ELSE IF a = NA \/ b = NA THEN NA
    ELSE "False"

And3(a, b) ==
    IF a = "False" \/ b = "False" THEN "False"
    ELSE IF a = NA \/ b = NA THEN NA
    ELSE "True"

\* df[mask]: a row is selected where the mask is "True"
IsSelected(b) == b = "True"

----------------------------------------------------------------------------
(* Geometry.                                                               *)

Point(px, py) == [x |-> px, y |-> py, d |-> 1]

\* squared planar distance between two input points (d = 1)
Dist2(p, q) == (p.x - q.x) * (p.x - q.x) + (p.y - q.y) * (p.y - q.y)

\* GeoSeries.centroid of the geometry dissolve() builds for a group: the
\* union of the member points (a MultiPoint holds each distinct coordinate
\* once), whose centroid is the mean of its distinct points.
UnionOfPoints(geoms) == Range(geoms)

RECURSIVE SumX(_)
SumX(pts) ==
    IF pts = {} THEN 0
    ELSE LET p == CHOOSE q \in pts : TRUE IN p.x + SumX(pts \ {p})

RECURSIVE SumY(_)
SumY(pts) ==
    IF pts = {} THEN 0
    ELSE LET p == CHOOSE q \in pts : TRUE IN p.y + SumY(pts \ {p})

Centroid(pts) ==
    LET sx == SumX(pts)
        sy == SumY(pts)
        n  == Cardinality(pts)
        g  == GCD(GCD(Abs(sx), Abs(sy)), n)
    IN [x |-> sx \div g, y |-> sy \div g, d |-> n \div g]

----------------------------------------------------------------------------
(* sklearn.cluster.DBSCAN(eps, min_samples).fit(coordinates).labels_       *)
(* A point is a neighbour of another when their distance is <= eps (the    *)
(* point itself included); a core point has at least min_samples           *)
(* neighbours; clusters are numbered 0, 1, ... in the order of their first *)
(* core point; a point reached by no core point is noise, label -1.        *)

\* a variant of NeighborsOf: a point exactly at eps is not a neighbour
NeighborsWithin(coords, i, eps) ==
    {j \in 1..Len(coords) : Dist2(coords[i], coords[j]) < eps * eps}

NeighborsOf(coords, i, eps) ==
    {j \in 1..Len(coords) : Dist2(coords[i], coords[j]) <= eps * eps}

IsCore(coords, i, eps, min_samples) ==
    Cardinality(NeighborsOf(coords, i, eps)) >= min_samples

RECURSIVE Expand(_, _, _, _)
Expand(coords, eps, min_samples, S) ==
    LET T == S \cup UNION {NeighborsOf(coords, i, eps) :
                             i \in {k \in S : IsCore(coords, k, eps, min_samples)}}
    IN IF T = S THEN S ELSE Expand(coords, eps, min_samples, T)

RECURSIVE DBSCANFrom(_, _, _, _, _, _)
DBSCANFrom(coords, eps, min_samples, i, labels, label_num) ==
    IF i > Len(coords) THEN labels
    ELSE IF labels[i] # -1 \/ ~IsCore(coords, i, eps, min_samples)
    THEN DBSCANFrom(coords, eps, min_samples, i + 1, labels, label_num)
    ELSE LET C == Expand(coords, eps, min_samples, {i})
             l == [k \in 1..Len(coords) |->
                     IF labels[k] = -1 /\ k \in C THEN label_num ELSE labels[k]]
         IN DBSCANFrom(coords, eps, min_samples, i + 1, l, label_num + 1)

DBSCAN(coords, eps, min_samples) ==
    DBSCANFrom(coords, eps, min_samples, 1,
               [k \in 1..Len(coords) |-> -1], 0)

\* the values of the cluster column, in increasing order (groupby sorts)
ClusterLabels(labels) == Ordered({labels[k] : k \in 1..Len(labels)})

\* the rows carrying a label, in index order
RowsOf(labels, c) == Ordered({k \in 1..Len(labels) : labels[k] = c})

----------------------------------------------------------------------------
(* pandas aggregation functions, applied to the values of one column over  *)
(* the rows of one group, in index order.                                  *)

\* a variant of First: the value of the first row, missing or not
FirstOfAll(col) == col[1]

\* "first": GroupBy.first, the first value that is not missing
First(col) ==
    IF \E k \in 1..Len(col) : col[k] # NA
    THEN col[MinOf({k \in 1..Len(col) : col[k] # NA})]
    ELSE NA

\* a variant of Sum: the rule "first" written where "sum" is meant
SumTakesFirst(col) == col[1]

\* a variant of Sum: a missing value makes the sum missing (skipna=False)
SumOrMissing(col) ==
    IF \E k \in 1..Len(col) : col[k] = NAInt THEN NAInt
    ELSE SumOver(col, 1..Len(col))

\* "sum": GroupBy.sum, missing values skipped, 0 when nothing is left
Sum(col) ==
    SumOver(col, {k \in 1..Len(col) : col[k] # NAInt})

\* a variant of Min: the rule "max" written where "min" is meant
MinTakesMax(col) ==
    IF \E k \in 1..Len(col) : col[k] # NAInt
    THEN CHOOSE m \in Range(col) : \A k \in 1..Len(col) : col[k] <= m
    ELSE NAInt

\* "min": GroupBy.min, missing values skipped, missing when nothing is left
Min(col) ==
    IF \E k \in 1..Len(col) : col[k] # NAInt
    THEN MinOf({col[k] : k \in {j \in 1..Len(col) : col[j] # NAInt}})
    ELSE NAInt

\* sep.join(l), on sequences of characters
RECURSIVE JoinWith(_, _)
JoinWith(sep, l) ==
    IF l = <<>> THEN <<>>
    ELSE IF Len(l) = 1 THEN l[1]
    ELSE l[1] \o sep \o JoinWith(sep, Tail(l))

\* the same on TLA+ strings
RECURSIVE JoinText(_, _)
JoinText(sep, l) ==
    IF l = <<>> THEN ""
    ELSE IF Len(l) = 1 THEN l[1]
    ELSE l[1] \o sep \o JoinText(sep, Tail(l))

\* the text values a summarised column can hold, in the order np.unique
\* returns them (sorted as text): "" < "no" < "null" < "yes"
SortedText == <<"", "no", "null", "yes">>

\* a variant of summarize_freq: the values are listed in the order they
\* come in, not in the order of np.unique
summarize_freq_by_appearance(mylist) ==
    LET filled == [k \in 1..Len(mylist) |->
                     IF mylist[k] = "" \/ mylist[k] = NA THEN "null" ELSE mylist[k]]
        firsts == SelectSeq([k \in 1..Len(filled) |-> k],
                            LAMBDA k : \A j \in 1..(k - 1) : filled[j] # filled[k])
        count(v) == Cardinality({k \in 1..Len(filled) : filled[k] = v})
        pairs  == [k \in 1..Len(firsts) |->
                     filled[firsts[k]] \o " (n="
                        \o ToString(count(filled[firsts[k]])) \o ")"]
    IN IF Len(firsts) > 1 THEN JoinText("\n", pairs) ELSE filled[1]

\* summarize_freq(mylist), downstream.py lines 40-47
summarize_freq(mylist) ==
    LET filled == [k \in 1..Len(mylist) |->
                     IF mylist[k] = "" \/ mylist[k] = NA THEN "null" ELSE mylist[k]]
        values == SelectSeq(SortedText, LAMBDA v : v \in Range(filled))
        count(v) == Cardinality({k \in 1..Len(filled) : filled[k] = v})
        pairs  == [k \in 1..Len(values) |->
                     values[k] \o " (n=" \o ToString(count(values[k])) \o ")"]
    IN IF Len(values) > 1 THEN JoinText("\n", pairs) ELSE filled[1]

----------------------------------------------------------------------------
(* group_proximate_rings, downstream.py lines 7-83.                        *)
(*                                                                         *)
(* Columns of a bollard row (one representative per aggregation rule):     *)
(*   source, bicycle_parking, meta_status                                  *)
(*                         "first"                                         *)
(*   capacity              "sum"                                           *)
(*   covered               summarize_freq                                  *)
(*   ref_furniture_id      ";".join   (ref:open.toronto.ca:street-         *)
(*                                     furniture-bicycle-parking:id)       *)
(*   meta_source_dataset   no rule in the table (set by                    *)
(*                         BikeDataToronto.normalize)                      *)
(*   geometry                                                              *)

\* the aggregations dict of group_proximate_rings
RingsAggregations ==
    [source           |-> "first",
     bicycle_parking  |-> "first",
     meta_status      |-> "first",
     capacity         |-> "sum",
     covered          |-> "summarize_freq",
     ref_furniture_id |-> "join",
     quantity         |-> "sum"]

\* the values of column a over the rows idx of frame df
Column(df, idx, a) == [k \in 1..Len(idx) |-> df[idx[k]][a]]

\* one aggregation rule of the rings table applied to one column of a group
AggregateRings(rule, col) ==
    CASE rule = "first"          -> First(col)
      [] rule = "sum"            -> Sum(col)
      [] rule = "summarize_freq" -> summarize_freq(col)
      [] rule = "join"           -> JoinWith(<<";">>, col)

\* a variant of NullToNaN: line 72 left out
NullKept(rule, v) == v

\* DataFrame.replace("null", np.nan), on the value of one cell of a column
\* aggregated by rule: a count is never the text "null"
NullToNaN(rule, v) ==
    CASE rule = "sum"  -> v
      [] rule = "join" -> IF v = <<"n", "u", "l", "l">> THEN NASeq ELSE v
      [] OTHER         -> IF v = "null" THEN NA ELSE v

\* GeoDataFrame.dissolve(by="cluster", aggfunc=aggregations) for one group:
\* the columns the table names, aggregated, and the union of the geometries
DissolveRings(df, idx) ==
    [a \in DOMAIN RingsAggregations |->
        AggregateRings(RingsAggregations[a], Column(df, idx, a))]
    @@ [geometry |-> UnionOfPoints(Column(df, idx, "geometry"))]

\* lines 72-78: "null" back to missing, the centroid as the geometry
FinishRings(row) ==
    [a \in DOMAIN row |->
        IF a = "geometry" THEN Centroid(row[a])
        ELSE NullToNaN(RingsAggregations[a], row[a])]

\* PART 2 of group_proximate_rings: one output row per cluster label
DissolveAllRings(df, labels, cl) ==
    [error   |-> "none",
     out     |-> [c \in 1..Len(cl) |->
                    FinishRings(DissolveRings(df, RowsOf(labels, cl[c])))],
     members |-> [c \in 1..Len(cl) |-> Range(RowsOf(labels, cl[c]))]]

ClusterAndDissolveRings(df, labels) ==
    DissolveAllRings(df, labels, ClusterLabels(labels))

\* a variant of group_proximate_rings: a column without a rule in the table
\* is refused before DBSCAN runs
group_proximate_rings_strict(rings_arg, radius_arg) ==
    IF \E k \in 1..Len(rings_arg) :
          ~(DOMAIN rings_arg[k] \subseteq DOMAIN RingsAggregations \cup {"geometry"})
    THEN [error |-> "KeyError", out |-> <<>>, members |-> <<>>]
    ELSE [error |-> "none", out |-> rings_arg,
          members |-> [k \in 1..Len(rings_arg) |-> {k}]]

group_proximate_rings(rings_arg, radius_arg) ==
    LET with_quantity == [k \in 1..Len(rings_arg) |->
                            rings_arg[k] @@ [quantity |-> 1]]
        coordinates   == [k \in 1..Len(rings_arg) |-> rings_arg[k].geometry]
    IN IF Len(rings_arg) = 0
       \* DBSCAN.fit: "Found array with 0 sample(s) ... while a minimum of 1
       \* is required by DBSCAN"
       THEN [error |-> "ValueError", out |-> <<>>, members |-> <<>>]
       ELSE IF \E k \in 1..Len(rings_arg) :
                  ~(DOMAIN RingsAggregations \subseteq DOMAIN with_quantity[k])
       \* DataFrameGroupBy.agg: "Column(s) [...] do not exist"
       THEN [error |-> "KeyError", out |-> <<>>, members |-> <<>>]
       ELSE IF \E k \in 1..Len(rings_arg) : rings_arg[k].ref_furniture_id = NASeq
       \* ";".join: "sequence item: expected str instance"
       THEN [error |-> "TypeError", out |-> <<>>, members |-> <<>>]
       ELSE ClusterAndDissolveRings(
                with_quantity,
                DBSCAN(coordinates, radius_arg, RingsMinSamples))

----------------------------------------------------------------------------
(* group_proximate_racks, downstream.py lines 86-180.                      *)
(*                                                                         *)
(* Columns of a rack row (one representative per aggregation rule):        *)
(*   source                 lambda _: "city-multi"                         *)
(*   bicycle_parking        "first"                                        *)
(*   operator               "first"                                        *)
(*   capacity               "min"                                          *)
(*   ref_racks_objectid     flist  (ref:open.toronto.ca:bicycle-parking-   *)
(*                                  racks:objectid)                        *)
(*   ref_high_capacity_id   flist  (ref:open.toronto.ca:bicycle-parking-   *)
(*                                  high-capacity-outdoor:id)              *)
(*   ref_furniture_id       flist  (ref:open.toronto.ca:street-furniture-  *)
(*                                  bicycle-parking:id)                    *)
(*   quantity               no rule in the table (the column comes from    *)
(*                          the bollard rows of city_combined)             *)
(*   meta_source_dataset    no rule in the table (set by                   *)
(*                          BikeDataToronto.normalize)                     *)
(*   geometry                                                              *)

\* the aggregations dict of group_proximate_racks
RacksAggregations ==
    [source               |-> "city-multi",
     bicycle_parking      |-> "first",
     operator             |-> "first",
     capacity             |-> "min",
     ref_racks_objectid   |-> "flist",
     ref_high_capacity_id |-> "flist",
     ref_furniture_id     |-> "flist"]

\* flist(l): " | ".join([str(x) for x in l.dropna().values])
flist(l) ==
    JoinWith(<<" ", "|", " ">>, SelectSeq(l, LAMBDA x : x # NASeq))

\* one aggregation rule of the racks table applied to one column of a group
AggregateRacks(rule, col) ==
    CASE rule = "city-multi" -> "city-multi"
      [] rule = "first"      -> First(col)
      [] rule = "min"        -> Min(col)
      [] rule = "flist"      -> flist(col)

\* the missing value of a column
MissingOf(a) ==
    IF a \in {"capacity", "quantity"} THEN NAInt
    ELSE IF SubSeq(a, 1, 4) = "ref_" THEN NASeq
    ELSE NA

\* dissolve(by="cluster", aggfunc=aggregations) for one group, the centroid
\* as its geometry, and, from pd.concat with the singles, the columns the
\* table does not name, left missing
DissolveRacks(df, idx) ==
    [a \in DOMAIN df[idx[1]] |->
        IF a = "geometry" THEN Centroid(UnionOfPoints(Column(df, idx, a)))
        ELSE IF a \in DOMAIN RacksAggregations
        THEN AggregateRacks(RacksAggregations[a], Column(df, idx, a))
        ELSE MissingOf(a)]

\* a variant of sources_per_cluster: .unique() left out, rows are counted
rows_per_cluster(df, labels, c) ==
    Len(RowsOf(labels, c))

\* lines 113-119: the number of distinct sources in a cluster
sources_per_cluster(df, labels, c) ==
    Cardinality({df[k].source : k \in Range(RowsOf(labels, c))})

\* a variant of return_to_singles: every clustered row is put back, the
\* rows of the clusters that are kept as well
return_every_clustered(df, labels) ==
    Ordered({k \in 1..Len(df) : labels[k] >= 0})

\* a variant of return_to_singles: the rejected rows are not put back
return_nothing(df, labels) == <<>>

\* lines 120-123: the rows of the clusters with only one data source
return_to_singles(df, labels) ==
    Ordered({k \in 1..Len(df) :
               /\ labels[k] >= 0
               /\ ~(sources_per_cluster(df, labels, labels[k]) > 1)})

\* lines 109-180, given the labels of DBSCAN
SplitAndDissolveRacks(df, labels) ==
    LET never_clustered   == Ordered({k \in 1..Len(df) : labels[k] < 0})
        kept    == SelectSeq(ClusterLabels(labels),
                             LAMBDA c : /\ c >= 0
                                        /\ sources_per_cluster(df, labels, c) > 1)
        singles == never_clustered \o return_to_singles(df, labels)
    IN [error   |-> "none",
        out     |-> [c \in 1..Len(kept) |-> DissolveRacks(df, RowsOf(labels, kept[c]))]
                    \o [k \in 1..Len(singles) |-> df[singles[k]]],
        members |-> [c \in 1..Len(kept) |-> Range(RowsOf(labels, kept[c]))]
                    \o [k \in 1..Len(singles) |-> {singles[k]}]]

group_proximate_racks(racks_arg, radius_arg) ==
    LET coordinates == [k \in 1..Len(racks_arg) |-> racks_arg[k].geometry]
    IN IF Len(racks_arg) = 0
       \* DBSCAN.fit: "Found array with 0 sample(s) ... while a minimum of 1
       \* is required by DBSCAN"
       THEN [error |-> "ValueError", out |-> <<>>, members |-> <<>>]
       ELSE IF \E k \in 1..Len(racks_arg) :
                  ~(DOMAIN RacksAggregations \cup {"quantity"}
                       \subseteq DOMAIN racks_arg[k])
       \* DataFrameGroupBy.agg: "Column(s) [...] do not exist";
       \* astype({"quantity": "Int64"}): "'quantity' not found in columns"
       THEN [error |-> "KeyError", out |-> <<>>, members |-> <<>>]
       \* eps is 30.0 whatever radius is
       ELSE SplitAndDissolveRacks(
                racks_arg, DBSCAN(coordinates, RacksEps, RacksMinSamples))

----------------------------------------------------------------------------
(* Columns of an OpenStreetMap row:                                        *)
(*   operator             text, as characters, or missing                  *)
(*   bicycle_parking      text or missing                                  *)
(*   ref_racks_objectid   ref:open.toronto.ca:bicycle-parking-racks:       *)
(*                        objectid, as characters, or missing              *)
(*   ref_furniture_id     ref:open.toronto.ca:street-furniture-bicycle-    *)
(*                        parking:id, as characters, or missing            *)
(*   geometry                                                              *)

\* Series.str.contains(r"city\s*?of\s*?toronto", case=False, regex=True)
operator_contains_city(row) ==
    IF row.operator = NASeq THEN NA
    ELSE Bool3(MatchesCityOfToronto(row.operator))

\* Series == "lockers", on a nullable text column
is_lockers(row) ==
    IF row.bicycle_parking = NA THEN NA
    ELSE Bool3(row.bicycle_parking = "lockers")

\* DataFrame.filter(like="ref:open.toronto.ca", axis=1): the ref columns
RefColumns(row) == {a \in DOMAIN row : SubSeq(a, 1, 4) = "ref_"}

----------------------------------------------------------------------------
(* drop_mapped_city_lockers, downstream.py lines 183-205.                  *)

\* a variant of within_max_distance: the boundary left out
within_max_distance_open(p, q, max_distance) ==
    Dist2(p, q) < max_distance * max_distance

\* sjoin_nearest(max_distance=radius) pairs a row with its nearest
\* neighbour when that neighbour is at most max_distance away
within_max_distance(p, q, max_distance) ==
    Dist2(p, q) <= max_distance * max_distance

\* a variant of osm_city_lockers_mask: the operator is not looked at
osm_lockers_mask(row) == is_lockers(row)

\* lines 187-194: the OpenStreetMap lockers operated by the city
osm_city_lockers_mask(row) ==
    And3(operator_contains_city(row), is_lockers(row))

osm_city_lockers(osm) ==
    LET selected == SelectSeq(osm, LAMBDA row :
                                  IsSelected(osm_city_lockers_mask(row)))
    IN [k \in 1..Len(selected) |-> Centroid({selected[k].geometry})]

\* lines 195-205: the lockers with no index_right
drop_mapped_city_lockers(lockers_arg, osm, radius_arg) ==
    SelectSeq(lockers_arg,
              LAMBDA row : ~\E g \in Range(osm_city_lockers(osm)) :
                               within_max_distance(row.geometry, g, radius_arg))

----------------------------------------------------------------------------
(* run_pipeline, "Downstream: City Data Selection",                        *)
(* data_pipeline.py lines 315-357.                                         *)

\* ref_cols_to_str, lines 39-44: the ref columns as text, a missing id
\* reading "<NA>"
ref_cols_to_str(gdf) ==
    [k \in 1..Len(gdf) |->
        [a \in DOMAIN gdf[k] |->
            IF a \in RefColumns(gdf[k]) THEN Str(gdf[k][a]) ELSE gdf[k][a]]]

\* lines 320-322: the row has a value in some ref column
open_toronto_ca_test(row) ==
    Bool3(\E a \in RefColumns(row) : row[a] # NASeq)

\* a variant of tags_of: the string is not split
tags_unsplit(tag_str) == <<Strip(Str(tag_str))>>

\* lines 331-332: the ids one cell lists
tags_of(tag_str) ==
    LET tags == Split(Str(tag_str), ";")
    IN [k \in 1..Len(tags) |-> Strip(tags[k])]

\* lines 325-335: all ids of the verified rows, by ref column
get_id_lists(osm) ==
    LET city_verified_osm == SelectSeq(osm, LAMBDA row :
                                 IsSelected(open_toronto_ca_test(row)))
        columns == UNION {RefColumns(osm[k]) : k \in 1..Len(osm)}
    IN [a \in columns |->
          Flatten([k \in 1..Len(city_verified_osm) |-> tags_of(city_verified_osm[k][a])])]

\* a variant of isin_any: the values listed under any key are looked for in
\* every ref column
isin_any_column(row, lists) ==
    \E a \in RefColumns(row), b \in DOMAIN lists : row[a] \in Range(lists[b])

\* DataFrame.isin(dict).any(axis=1): some column of the row that is a key
\* of the dict holds one of the values listed under it
isin_any(row, lists) ==
    \E a \in DOMAIN row \cap DOMAIN lists : row[a] \in Range(lists[a])

\* lines 337-339
drop_matching(dataset, lists) ==
    SelectSeq(dataset, LAMBDA row : ~isin_any(row, lists))

\* a variant of operator_not_city_and_no_ref_test: the lockers are not
\* exempted
operator_not_city_test_without_lockers(row) ==
    And3(Or3(Not3(operator_contains_city(row)), Bool3(row.operator = NASeq)),
         Not3(open_toronto_ca_test(row)))

\* lines 343-351
operator_not_city_and_no_ref_test(row) ==
    And3(Or3(Or3(Not3(operator_contains_city(row)), Bool3(row.operator = NASeq)),
             is_lockers(row)),
         Not3(open_toronto_ca_test(row)))

\* a variant of filter_osm: the verified rows alone
filter_osm_verified_only(osm) ==
    LET city_verified_osm == SelectSeq(osm, LAMBDA row :
                                 IsSelected(open_toronto_ca_test(row)))
    IN [k \in 1..Len(city_verified_osm) |->
          [a \in DOMAIN city_verified_osm[k] |->
              IF a = "geometry" THEN Centroid({city_verified_osm[k][a]})
              ELSE city_verified_osm[k][a]]]

\* lines 352-357: the verified rows, then the others kept, at their centroid
filter_osm(osm) ==
    LET city_verified_osm == SelectSeq(osm, LAMBDA row :
                                 IsSelected(open_toronto_ca_test(row)))
        others == SelectSeq(osm, LAMBDA row :
                      IsSelected(operator_not_city_and_no_ref_test(row)))
        osm_filtered == city_verified_osm \o others
    IN [k \in 1..Len(osm_filtered) |->
          [a \in DOMAIN osm_filtered[k] |->
              IF a = "geometry" THEN Centroid({osm_filtered[k][a]})
              ELSE osm_filtered[k][a]]]

----------------------------------------------------------------------------
(* run_pipeline, the stages after the city data selection,                 *)
(* data_pipeline.py lines 359-451.                                         *)

\* the order of the city datasets (city_combined, then the bike stations)
CityDatasets ==
    <<"bicycle-parking-high-capacity-outdoor", "bicycle-parking-racks",
      "street-furniture-bicycle-parking", "bicycle-parking-bike-stations-indoor">>

\* the columns of a frame
ColumnsOf(df) == UNION {DOMAIN df[k] : k \in 1..Len(df)}

\* DataFrame.dropna(axis="columns", how="all")
DropNaColumns(df) ==
    LET kept == {a \in ColumnsOf(df) :
                    \/ a = "geometry"
                    \/ \E k \in 1..Len(df) : df[k][a] # MissingOf(a)}
    IN [k \in 1..Len(df) |-> [a \in kept |-> df[k][a]]]

\* pd.concat: the rows of the frames in order, over the union of their
\* columns; a column a frame lacks is missing in its rows
Concat(frames) ==
    LET rows == Flatten(frames)
    IN [k \in 1..Len(rows) |->
          [a \in ColumnsOf(rows) |->
              IF a \in DOMAIN rows[k] THEN rows[k][a] ELSE MissingOf(a)]]

\* lines 366-372: the ids of the exclusion file, by field; an id is a
\* one-pair object {k: v}
city_exclusions_dict(exclusions) ==
    LET ids == Flatten([e \in 1..Len(exclusions) |-> exclusions[e].ids])
    IN [f \in {ids[i].k : i \in 1..Len(ids)} |->
          LET of_f == SelectSeq(ids, LAMBDA id : id.k = f)
          IN [i \in 1..Len(of_f) |-> of_f[i].v]]

\* a variant of drop_excluded: the exclusion file is not applied
drop_excluded_nothing(data, exclusions) == data

\* lines 374-377
drop_excluded(data, exclusions) ==
    [d \in DOMAIN data |->
        drop_matching(data[d], city_exclusions_dict(exclusions))]

\* lines 378-384
combine_unclustered(data) ==
    Concat([i \in 1..Len(CityDatasets) |-> DropNaColumns(data[CityDatasets[i]])])

\* Series == text and Series != text on a nullable text column: missing
\* where the value is missing
eq3(value, text) == IF value = NA THEN NA ELSE Bool3(value = text)

ne3(value, text) == IF value = NA THEN NA ELSE Bool3(value # text)

\* Series.isna()
isna(value) == Bool3(value = NA)

\* lines 394-399
furniture_bollards(furniture) ==
    SelectSeq(furniture,
              LAMBDA row : IsSelected(eq3(row.bicycle_parking, "bollard")))

\* a variant of furniture_not_bollards: "| isna()" left out
furniture_not_bollards_without_isna(furniture) ==
    SelectSeq(furniture,
              LAMBDA row : IsSelected(ne3(row.bicycle_parking, "bollard")))

furniture_not_bollards(furniture) ==
    SelectSeq(furniture,
              LAMBDA row : IsSelected(Or3(ne3(row.bicycle_parking, "bollard"),
                                          isna(row.bicycle_parking))))

\* lines 401-404: the bollards grouped, behind the other furniture
cluster_rings(furniture) ==
    LET agg_bollards == group_proximate_rings(furniture_bollards(furniture),
                                              RingsDefaultRadius)
    IN [error |-> agg_bollards.error,
        out   |-> Concat(<<furniture_not_bollards(furniture), agg_bollards.out>>)]

\* lines 418-427
city_combined(data) ==
    Concat(<<DropNaColumns(data["bicycle-parking-high-capacity-outdoor"]),
             DropNaColumns(data["bicycle-parking-racks"]),
             DropNaColumns(data["street-furniture-bicycle-parking"])>>)

\* lines 428-432
city_racks(data) ==
    SelectSeq(city_combined(data),
              LAMBDA row : IsSelected(eq3(row.bicycle_parking, "rack")))

\* a variant of city_not_racks: in a repeated run the rows an earlier run
\* has put out are left out
city_not_racks_once(data) ==
    IF run = 1
    THEN SelectSeq(city_combined(data), LAMBDA row : row.bicycle_parking # "rack")
    ELSE <<>>

city_not_racks(data) ==
    SelectSeq(city_combined(data),
              LAMBDA row : IsSelected(Or3(ne3(row.bicycle_parking, "rack"),
                                          isna(row.bicycle_parking))))

\* the racks within 20 m of the campus of Toronto Metropolitan University
\* (lines 411-414), as positions
TmuZone == {Point(100, 0), Point(118, 24)}

\* a variant of tmu: no rack is in the zone
tmu_nowhere(row) == FALSE

\* lines 435-437: the column tmu; it has the rule "first" in the racks
\* table and is dropped from city_full at line 448, so the rows are kept
\* without it
tmu(row) == row.geometry \in TmuZone

\* lines 440-448
deduplicate_racks(data) ==
    LET city_racks_clustered ==
            group_proximate_racks(
                SelectSeq(city_racks(data), LAMBDA row : ~tmu(row)),
                RacksDefaultRadius)
    IN [error |-> city_racks_clustered.error,
        out   |-> Concat(<<city_racks_clustered.out,
                           SelectSeq(city_racks(data), tmu),
                           city_not_racks(data),
                           data["bicycle-parking-bike-stations-indoor"]>>)]

----------------------------------------------------------------------------
(* Inputs of group_proximate_rings.                                        *)

\* planar positions: (0,0)-(3,4) and (3,4)-(6,0) are exactly 5 m apart,
\* (0,0)-(6,0) are 6 m apart
RingPositions == {Point(0, 0), Point(3, 4), Point(6, 0)}

\* (covered, capacity) of a bollard: Ring and Art Stand have capacity 2 and
\* covered "no"; empty and missing values are kept as cases
BollardProfiles ==
    {<<NA, 2>>, <<"", 2>>, <<"no", 2>>, <<"yes", 2>>, <<"no", NAInt>>}

\* the id of the k-th row: "b1", "b2", ...
RingId(k) == <<"b", ToString(k)>>

Bollard(k, g, cov, cap) ==
    [source              |-> "street-furniture-bicycle-parking",
     bicycle_parking     |-> "bollard",
     meta_status         |-> "Existing",
     capacity            |-> cap,
     covered             |-> cov,
     ref_furniture_id    |-> RingId(k),
     meta_source_dataset |-> "street-furniture-bicycle-parking",
     geometry            |-> g]

----------------------------------------------------------------------------
(* Inputs of group_proximate_racks.                                        *)

\* planar positions: (0,0)-(18,24) and (18,24)-(36,0) are exactly 30 m
\* apart, (0,0)-(36,0) are 36 m apart
RackPositions == {Point(0, 0), Point(18, 24), Point(36, 0)}

RackSources == {"bicycle-parking-racks", "bicycle-parking-high-capacity-outdoor"}

RackCapacities == {NAInt, 4, 6, 8}

\* the id of the k-th row: "r1", "r2", ...
RackId(k) == <<"r", ToString(k)>>

Rack(k, g, src, cap) ==
    [source               |-> src,
     bicycle_parking      |-> "rack",
     operator             |-> "City of Toronto",
     capacity             |-> cap,
     ref_racks_objectid   |-> IF src = "bicycle-parking-racks"
                              THEN RackId(k) ELSE NASeq,
     ref_high_capacity_id |-> IF src = "bicycle-parking-high-capacity-outdoor"
                              THEN RackId(k) ELSE NASeq,
     ref_furniture_id     |-> IF src = "street-furniture-bicycle-parking"
                              THEN RingId(k) ELSE NASeq,
     quantity             |-> NAInt,
     meta_source_dataset  |-> src,
     geometry             |-> g]

----------------------------------------------------------------------------
(* Inputs of the city data selection and of drop_mapped_city_lockers.      *)

OperatorSamples ==
    {NASeq, Chars("City of Toronto"), Chars("the CITYOF  toronto"),
     Chars("Toronto Parking Authority")}

ParkingTypes == {NA, "lockers", "rack"}

\* what an OpenStreetMap row may hold in the racks ref column
OsmRefSamples ==
    {NASeq, Chars("1"), Chars("1;2"), Chars(" 12 ; 1"), Chars("no"), Chars("")}

\* (racks ref, furniture ref) of an OpenStreetMap row
OsmRefProfiles == OsmRefSamples \X {NASeq, Chars("1")}

\* planar positions of OpenStreetMap lockers: 200 m, 201 m and (120,160),
\* again 200 m, from the origin
OsmLockerPositions == {Point(200, 0), Point(201, 0), Point(120, 160)}

\* planar positions of city lockers
CityLockerPositions == {Point(0, 0), Point(1, 0)}

Osm(op, bp, ref_racks, ref_furniture, g) ==
    [operator           |-> op,
     bicycle_parking    |-> bp,
     ref_racks_objectid |-> ref_racks,
     ref_furniture_id   |-> ref_furniture,
     geometry           |-> g]

Locker(g) ==
    [bicycle_parking |-> "lockers",
     operator        |-> Chars("City of Toronto"),
     capacity        |-> 4,
     geometry        |-> g]

CityRackIds == {Chars("1"), Chars("2"), Chars("12")}

CityFurnitureIds == {Chars("1"), NASeq}

CityRack(id) ==
    [source             |-> "bicycle-parking-racks",
     bicycle_parking    |-> "rack",
     ref_racks_objectid |-> id]

CityFurniture(id) ==
    [source           |-> "street-furniture-bicycle-parking",
     bicycle_parking  |-> "bollard",
     ref_furniture_id |-> id]

\* lines 226-235: the datasets as loaded, the ref columns made text
LoadCityData(racks_gdf, furniture_gdf) ==
    [d \in {"bicycle-parking-racks", "street-furniture-bicycle-parking"} |->
        IF d = "bicycle-parking-racks" THEN ref_cols_to_str(racks_gdf)
        ELSE ref_cols_to_str(furniture_gdf)]

NoCityData == LoadCityData(<<>>, <<>>)

----------------------------------------------------------------------------
(* Inputs of the grouping operations that differ in the columns ruled by   *)
(* "first" and by the joins.                                               *)

\* meta_status of a bollard ("first" in the rings table)
StatusSamples == {NA, "Existing", "Temporarily Removed"}

\* operator of a rack ("first" in the racks table)
RackOperatorSamples == {NA, "City of Toronto", "Toronto Parking Authority"}

\* the id of a row: its own, missing, or the text ref_cols_to_str makes of
\* a missing id
IdKinds == {"own", "missing", "<NA>"}

IdOf(kind, own) ==
    CASE kind = "own"     -> own
      [] kind = "missing" -> NASeq
      [] kind = "<NA>"    -> Chars("<NA>")

\* (operator, id) of a rack
RackRuleProfiles ==
    (RackOperatorSamples \X {"own"}) \cup ({"City of Toronto"} \X IdKinds)

BollardWith(k, g, status, id) ==
    [Bollard(k, g, "no", 2) EXCEPT !.meta_status = status,
                                    !.ref_furniture_id = IdOf(id, RingId(k))]

RackWith(k, g, src, op, id) ==
    IF src = "bicycle-parking-racks"
    THEN [Rack(k, g, src, 4) EXCEPT !.operator = op,
                                    !.ref_racks_objectid = IdOf(id, RackId(k))]
    ELSE [Rack(k, g, src, 4) EXCEPT !.operator = op,
                                    !.ref_high_capacity_id = IdOf(id, RackId(k))]

----------------------------------------------------------------------------
(* Inputs of run_pipeline: the normalized datasets, the OpenStreetMap rows, *)
(* the lockers and the exclusion file.                                     *)

\* planar positions of the racks: two 30 m apart outside the zone, two
\* 30 m apart inside it
PipelineRackPositions == {Point(0, 0), Point(18, 24)} \cup TmuZone

PipelineBollardPositions == {Point(0, 0), Point(3, 4)}

HighCapacityPositions == {Point(0, 0), Point(100, 0)}

\* a row of a normalized rack dataset: its own ref column only, no quantity
DatasetRack(k, g, src) ==
    LET row == Rack(k, g, src, IF src = "bicycle-parking-racks" THEN 4 ELSE 8)
        own == IF src = "bicycle-parking-racks" THEN "ref_racks_objectid"
               ELSE "ref_high_capacity_id"
    IN [a \in {c \in DOMAIN row : c # "quantity" /\ (c \in RefColumns(row) => c = own)}
          |-> row[a]]

\* the one row of bicycle-parking-bike-stations-indoor
Station ==
    [source          |-> "bicycle-parking-bike-stations-indoor",
     bicycle_parking |-> "building",
     operator        |-> "City of Toronto",
     capacity        |-> 100,
     ref_stations_id |-> Chars("s1"),
     geometry        |-> Point(500, 0)]

\* lines 226-235, for the four datasets
LoadPipelineCityData(high_capacity, racks_gdf, furniture_gdf) ==
    [d \in Range(CityDatasets) |->
        ref_cols_to_str(
            CASE d = "bicycle-parking-high-capacity-outdoor" -> high_capacity
              [] d = "bicycle-parking-racks" -> racks_gdf
              [] d = "street-furniture-bicycle-parking" -> furniture_gdf
              [] OTHER -> <<Station>>)]

\* the OpenStreetMap rows of a run: a city rack with a ref, one with refs
\* of two kinds, a city locker 200 m from the origin, a private rack
PipelineOsmRows ==
    {Osm(Chars("City of Toronto"), "rack", Chars("r1"), NASeq, Point(0, 0)),
     Osm(Chars("City of Toronto"), "rack", Chars("r2;r1"), Chars("b1"), Point(3, 4)),
     Osm(Chars("City of Toronto"), "lockers", NASeq, NASeq, Point(200, 0)),
     Osm(Chars("Toronto Parking Authority"), "rack", NASeq, NASeq, Point(0, 0))}

\* the ids the exclusion file may name: the same text "r1" under two fields
ExclusionIds ==
    {[k |-> "ref_racks_objectid", v |-> RackId(1)],
     [k |-> "ref_high_capacity_id", v |-> RackId(1)],
     [k |-> "ref_furniture_id", v |-> RingId(1)]}

----------------------------------------------------------------------------
(* The calls.                                                              *)

\* nothing loaded: the state of the selection while a grouping operation
\* is called on its own
NoSelection ==
    /\ lockers = <<>>
    /\ osm_combined = <<>>
    /\ lockers_unmapped = <<>>
    /\ city_loaded = NoCityData
    /\ city_data = NoCityData
    /\ id_lists = <<>>
    /\ osm_centroid = <<>>

\* the stages after the city data selection have not run
NoDownstream ==
    /\ city_exclusions = <<>>
    /\ city_unclustered_combined = <<>>
    /\ city_full = <<>>
    /\ all_sources = <<>>

\* nothing is written and no source is updated
NoFiles ==
    /\ fs_dirs = {}
    /\ fs_files = <<>>
    /\ fs_writes = <<>>
    /\ save_call = <<>>
    /\ archive_name = <<>>
    /\ datasets = <<>>
    /\ statuses = <<>>
    /\ dataset_index = 0

\* the stages run once
SingleRun ==
    /\ run = 1
    /\ first_run = <<>>

NoGrouping ==
    /\ rings = <<>>
    /\ out_rings = <<>>
    /\ rings_members = <<>>
    /\ racks = <<>>
    /\ out_racks = <<>>
    /\ racks_members = <<>>

InitRings ==
    /\ pc = "group_proximate_rings"
    /\ error = "none"
    /\ radius = RingsDefaultRadius
    /\ \E n \in 0..MaxRings :
         \E g \in [1..n -> RingPositions], p \in [1..n -> BollardProfiles] :
              rings = [k \in 1..n |-> Bollard(k, g[k], p[k][1], p[k][2])]
    /\ out_rings = <<>>
    /\ rings_members = <<>>
    /\ racks = <<>>
    /\ out_racks = <<>>
    /\ racks_members = <<>>
    /\ NoSelection
    /\ NoDownstream
    /\ NoFiles
    /\ SingleRun

CallGroupProximateRings ==
    /\ pc = "group_proximate_rings"
    /\ UNCHANGED <<files_vars, runs_vars>>
    /\ LET r == group_proximate_rings(rings, radius)
       IN /\ pc' = IF r.error = "none" THEN "rings_returned" ELSE "rings_raised"
          /\ error' = r.error
          /\ out_rings' = r.out
          /\ rings_members' = r.members
    /\ UNCHANGED <<radius, rings, racks, out_racks, racks_members>>
    /\ UNCHANGED selection_vars
    /\ UNCHANGED downstream_vars

NextRings == CallGroupProximateRings

SpecRings == InitRings /\ [][NextRings]_vars

InitRacks ==
    /\ pc = "group_proximate_racks"
    /\ error = "none"
    /\ radius = RacksDefaultRadius
    /\ \E n \in 0..MaxRacks :
         \E g \in [1..n -> RackPositions],
            src \in [1..n -> RackSources],
            cap \in [1..n -> RackCapacities] :
              racks = [k \in 1..n |-> Rack(k, g[k], src[k], cap[k])]
    /\ out_racks = <<>>
    /\ racks_members = <<>>
    /\ rings = <<>>
    /\ out_rings = <<>>
    /\ rings_members = <<>>
    /\ NoSelection
    /\ NoDownstream
    /\ NoFiles
    /\ SingleRun

CallGroupProximateRacks ==
    /\ pc = "group_proximate_racks"
    /\ UNCHANGED <<files_vars, runs_vars>>
    /\ LET r == group_proximate_racks(racks, radius)
       IN /\ pc' = IF r.error = "none" THEN "racks_returned" ELSE "racks_raised"
          /\ error' = r.error
          /\ out_racks' = r.out
          /\ racks_members' = r.members
    /\ UNCHANGED <<radius, racks, rings, out_rings, rings_members>>
    /\ UNCHANGED selection_vars
    /\ UNCHANGED downstream_vars

NextRacks == CallGroupProximateRacks

SpecRacks == InitRacks /\ [][NextRacks]_vars

\* either grouping operation, called once
InitGrouping == InitRings \/ InitRacks

NextGrouping == CallGroupProximateRings \/ CallGroupProximateRacks

SpecGrouping == InitGrouping /\ [][NextGrouping]_vars

InitLockers ==
    /\ pc = "drop_mapped_city_lockers"
    /\ error = "none"
    /\ radius = LockersDefaultRadius
    /\ \E n \in 0..MaxLockers : \E g \in [1..n -> CityLockerPositions] :
          lockers = [k \in 1..n |-> Locker(g[k])]
    /\ \E n \in 0..MaxOsm :
         \E op \in [1..n -> OperatorSamples],
            bp \in [1..n -> ParkingTypes],
            g \in [1..n -> OsmLockerPositions] :
              osm_combined = [k \in 1..n |-> Osm(op[k], bp[k], NASeq, NASeq, g[k])]
    /\ lockers_unmapped = <<>>
    /\ city_loaded = NoCityData
    /\ city_data = NoCityData
    /\ id_lists = <<>>
    /\ osm_centroid = <<>>
    /\ NoGrouping
    /\ NoDownstream
    /\ NoFiles
    /\ SingleRun

CallDropMappedCityLockers ==
    /\ pc = "drop_mapped_city_lockers"
    /\ UNCHANGED <<files_vars, runs_vars>>
    /\ pc' = "lockers_returned"
    /\ lockers_unmapped' = drop_mapped_city_lockers(lockers, osm_combined, radius)
    /\ UNCHANGED <<error, radius, lockers, osm_combined, city_loaded, city_data,
                   id_lists, osm_centroid>>
    /\ UNCHANGED grouping_vars
    /\ UNCHANGED downstream_vars

NextLockers == CallDropMappedCityLockers

SpecLockers == InitLockers /\ [][NextLockers]_vars

\* the OpenStreetMap rows differ in their ref columns
InitSelectionRefs ==
    /\ \E n \in 0..MaxOsm : \E r \in [1..n -> OsmRefProfiles] :
          osm_combined = [k \in 1..n |->
              Osm(Chars("City of Toronto"), "rack", r[k][1], r[k][2], Point(0, 0))]
    /\ \E n \in 0..MaxCityRacks, m \in 0..1 :
         \E a \in [1..n -> CityRackIds], b \in [1..m -> CityFurnitureIds] :
            city_loaded = LoadCityData([k \in 1..n |-> CityRack(a[k])],
                                       [k \in 1..m |-> CityFurniture(b[k])])

\* the OpenStreetMap rows differ in operator, type and ref
InitSelectionOperators ==
    /\ \E n \in 0..MaxOsm :
         \E op \in [1..n -> OperatorSamples],
            bp \in [1..n -> ParkingTypes],
            r \in [1..n -> {NASeq, Chars("1"), Chars("no")}] :
              osm_combined = [k \in 1..n |->
                  Osm(op[k], bp[k], r[k], NASeq, Point(0, 0))]
    /\ city_loaded = LoadCityData(<<CityRack(Chars("1"))>>, <<>>)

InitSelection ==
    /\ pc = "city_data_selection"
    /\ error = "none"
    /\ radius = LockersDefaultRadius
    /\ InitSelectionRefs \/ InitSelectionOperators
    /\ city_data = city_loaded
    /\ id_lists = <<>>
    /\ osm_centroid = <<>>
    /\ lockers = <<>>
    /\ lockers_unmapped = <<>>
    /\ NoGrouping
    /\ NoDownstream
    /\ NoFiles
    /\ SingleRun

\* lines 319-339: the ids OpenStreetMap refers to, and the city rows without
\* the rows they name
DropCityDataInOsm ==
    /\ pc = "city_data_selection"
    /\ UNCHANGED <<files_vars, runs_vars>>
    /\ pc' = "osm_selection"
    /\ id_lists' = get_id_lists(osm_combined)
    /\ city_data' = [d \in DOMAIN city_data |->
                        drop_matching(city_data[d], get_id_lists(osm_combined))]
    /\ UNCHANGED <<error, radius, lockers, osm_combined, lockers_unmapped,
                   city_loaded, osm_centroid>>
    /\ UNCHANGED grouping_vars
    /\ UNCHANGED downstream_vars

\* lines 341-357: the OpenStreetMap rows kept
FilterOsm ==
    /\ pc = "osm_selection"
    /\ UNCHANGED <<files_vars, runs_vars>>
    /\ pc' = "selected"
    /\ osm_centroid' = filter_osm(osm_combined)
    /\ UNCHANGED <<error, radius, lockers, osm_combined, lockers_unmapped,
                   city_loaded, city_data, id_lists>>
    /\ UNCHANGED grouping_vars
    /\ UNCHANGED downstream_vars

NextSelection == DropCityDataInOsm \/ FilterOsm

SpecSelection == InitSelection /\ [][NextSelection]_vars

\* calls of the grouping operations on rows that differ in status,
\* operator and id
InitRulesRings ==
    /\ pc = "group_proximate_rings"
    /\ radius = RingsDefaultRadius
    /\ \E n \in 0..MaxRings :
         \E g \in [1..n -> PipelineBollardPositions],
            st \in [1..n -> StatusSamples],
            id \in [1..n -> IdKinds] :
              rings = [k \in 1..n |-> BollardWith(k, g[k], st[k], id[k])]
    /\ racks = <<>>

InitRulesRacks ==
    /\ pc = "group_proximate_racks"
    /\ radius = RacksDefaultRadius
    /\ \E n \in 0..MaxRacks :
         \E g \in [1..n -> {Point(0, 0), Point(18, 24)}],
            src \in [1..n -> RackSources],
            p \in [1..n -> RackRuleProfiles] :
              racks = [k \in 1..n |-> RackWith(k, g[k], src[k], p[k][1], p[k][2])]
    /\ rings = <<>>

InitRules ==
    /\ InitRulesRings \/ InitRulesRacks
    /\ error = "none"
    /\ out_rings = <<>>
    /\ rings_members = <<>>
    /\ out_racks = <<>>
    /\ racks_members = <<>>
    /\ NoSelection
    /\ NoDownstream
    /\ NoFiles
    /\ SingleRun

SpecRules == InitRules /\ [][NextGrouping]_vars

\* run_pipeline from the city data selection on, lines 315-451
InitPipeline ==
    /\ pc = "city_data_selection"
    /\ error = "none"
    /\ radius = LockersDefaultRadius
    /\ \E n \in 0..MaxPipelineRacks, h \in 0..1, b \in 0..MaxPipelineBollards :
         \E g \in [1..n -> PipelineRackPositions],
            gh \in [1..h -> HighCapacityPositions],
            gb \in [1..b -> PipelineBollardPositions] :
              city_loaded = LoadPipelineCityData(
                  [k \in 1..h |-> DatasetRack(k, gh[k],
                                      "bicycle-parking-high-capacity-outdoor")],
                  [k \in 1..n |-> DatasetRack(k, g[k], "bicycle-parking-racks")],
                  [k \in 1..b |-> Bollard(k, gb[k], "no", 2)])
    /\ city_data = city_loaded
    /\ \E n \in 0..1 : \E o \in [1..n -> PipelineOsmRows] : osm_combined = o
    /\ lockers = <<Locker(Point(0, 0))>>
    /\ \E n \in 0..MaxExclusions : \E ids \in [1..n -> ExclusionIds] :
          city_exclusions = [e \in 1..n |-> [ids |-> <<ids[e]>>]]
    /\ id_lists = <<>>
    /\ osm_centroid = <<>>
    /\ lockers_unmapped = <<>>
    /\ city_unclustered_combined = <<>>
    /\ city_full = <<>>
    /\ all_sources = <<>>
    /\ NoGrouping
    /\ NoFiles
    /\ SingleRun

\* lines 359-384
DropManualExclusions ==
    /\ pc = "selected"
    /\ UNCHANGED <<files_vars, runs_vars>>
    /\ pc' = "excluded"
    /\ city_data' = drop_excluded(city_data, city_exclusions)
    /\ city_unclustered_combined' =
          combine_unclustered(drop_excluded(city_data, city_exclusions))
    /\ UNCHANGED <<error, radius, lockers, osm_combined, lockers_unmapped,
                   city_loaded, id_lists, osm_centroid, city_exclusions,
                   city_full, all_sources>>
    /\ UNCHANGED grouping_vars

\* lines 386-387
DropMappedLockers ==
    /\ pc = "excluded"
    /\ UNCHANGED <<files_vars, runs_vars>>
    /\ pc' = "lockers_dropped"
    /\ lockers_unmapped' =
          drop_mapped_city_lockers(lockers, osm_combined, LockersDefaultRadius)
    /\ UNCHANGED <<error, radius, lockers, osm_combined, city_loaded, city_data,
                   id_lists, osm_centroid>>
    /\ UNCHANGED downstream_vars
    /\ UNCHANGED grouping_vars

\* lines 389-404
ClusterRings ==
    /\ pc = "lockers_dropped"
    /\ UNCHANGED <<files_vars, runs_vars>>
    /\ LET furniture == city_data["street-furniture-bicycle-parking"]
           agg_bollards == group_proximate_rings(furniture_bollards(furniture),
                                                 RingsDefaultRadius)
       IN /\ rings' = furniture_bollards(furniture)
          /\ error' = agg_bollards.error
          /\ out_rings' = agg_bollards.out
          /\ rings_members' = agg_bollards.members
          /\ IF agg_bollards.error = "none"
             THEN /\ pc' = "rings_clustered"
                  /\ city_data' =
                        [city_data EXCEPT !["street-furniture-bicycle-parking"] =
                            cluster_rings(furniture).out]
             ELSE /\ pc' = "raised"
                  /\ UNCHANGED city_data
    /\ UNCHANGED <<radius, racks, out_racks, racks_members, lockers,
                   osm_combined, lockers_unmapped, city_loaded, id_lists,
                   osm_centroid>>
    /\ UNCHANGED downstream_vars

\* lines 406-448
DeduplicateRacks ==
    /\ pc = "rings_clustered"
    /\ UNCHANGED <<files_vars, runs_vars>>
    /\ LET city_racks_clustered ==
               group_proximate_racks(
                   SelectSeq(city_racks(city_data), LAMBDA row : ~tmu(row)),
                   RacksDefaultRadius)
       IN /\ racks' = SelectSeq(city_racks(city_data), LAMBDA row : ~tmu(row))
          /\ error' = city_racks_clustered.error
          /\ out_racks' = city_racks_clustered.out
          /\ racks_members' = city_racks_clustered.members
          /\ IF city_racks_clustered.error = "none"
             THEN /\ pc' = "racks_deduplicated"
                  /\ city_full' = deduplicate_racks(city_data).out
             ELSE /\ pc' = "raised"
                  /\ UNCHANGED city_full
    /\ UNCHANGED <<radius, rings, out_rings, rings_members, lockers,
                   osm_combined, lockers_unmapped, city_loaded, city_data,
                   id_lists, osm_centroid, city_exclusions,
                   city_unclustered_combined, all_sources>>

\* lines 450-451
CombineAllSources ==
    /\ pc = "racks_deduplicated"
    /\ UNCHANGED <<files_vars, runs_vars>>
    /\ pc' = "combined"
    /\ all_sources' = Concat(<<city_full, osm_centroid, lockers_unmapped>>)
    /\ UNCHANGED <<error, radius, lockers, osm_combined, lockers_unmapped,
                   city_loaded, city_data, id_lists, osm_centroid,
                   city_exclusions, city_unclustered_combined, city_full>>
    /\ UNCHANGED grouping_vars

NextPipeline ==
    \/ DropCityDataInOsm
    \/ FilterOsm
    \/ DropManualExclusions
    \/ DropMappedLockers
    \/ ClusterRings
    \/ DeduplicateRacks
    \/ CombineAllSources

SpecPipeline == InitPipeline /\ [][NextPipeline]_vars

----------------------------------------------------------------------------
(* Properties of the grouping operations.                                  *)

RingsEnded == pc \in {"rings_returned", "rings_raised"}
RacksEnded == pc \in {"racks_returned", "racks_raised"}

\* the rows of df other than k that lie within eps of row k
Near(df, k, eps) ==
    {j \in 1..Len(df) : j # k /\ Dist2(df[k].geometry, df[j].geometry) <= eps * eps}

\* the rows of df joined to row k by a chain of steps of at most eps
RECURSIVE ChainFrom(_, _, _)
ChainFrom(df, S, eps) ==
    LET T == S \cup UNION {Near(df, k, eps) : k \in S}
    IN IF T = S THEN S ELSE ChainFrom(df, T, eps)

SourcesOf(df, S) == {df[k].source : k \in S}

\* C1: the quantities of the rows group_proximate_rings returns add up to
\* the number of rows it was given.
C1_QuantityConservation ==
    pc = "rings_returned" =>
        SumOver([c \in 1..Len(out_rings) |-> out_rings[c].quantity],
                1..Len(out_rings)) = Len(rings)

C1_Witness ==
    /\ pc = "rings_returned"
    /\ Len(rings) = 3
    /\ Len(out_rings) = 2
    /\ \E c \in 1..2 : out_rings[c].quantity = 2

\* C2: every row group_proximate_racks returns as a merge (two or more
\* members, source "city-multi") has members from at least two sources, and
\* racks that all come from one source are returned as they were given, row
\* for row.
C2_MultiSourceGate ==
    pc = "racks_returned" =>
        /\ \A c \in 1..Len(out_racks) :
              (Cardinality(racks_members[c]) >= 2 \/ out_racks[c].source = "city-multi")
                 => Cardinality(SourcesOf(racks, racks_members[c])) >= 2
        /\ Cardinality(SourcesOf(racks, 1..Len(racks))) <= 1
              => /\ Len(out_racks) = Len(racks)
                 /\ \A k \in 1..Len(racks) :
                       \E c \in 1..Len(out_racks) : out_racks[c] = racks[k]

C2_Witness ==
    /\ pc = "racks_returned"
    /\ Len(racks) = 3
    /\ Cardinality(SourcesOf(racks, 1..3)) = 1
    /\ ChainFrom(racks, {1}, RacksEps) = 1..3
    /\ Len(out_racks) = 3

\* C5: the capacity of a merged rack row is the least capacity among its
\* members that have one (missing when none has), hence at most the capacity
\* of every member.
C5_CapacityIsMinimum ==
    pc = "racks_returned" =>
        \A c \in 1..Len(out_racks) :
            Cardinality(racks_members[c]) >= 2 =>
                LET caps == {racks[k].capacity : k \in racks_members[c]} \ {NAInt}
                IN IF caps = {} THEN out_racks[c].capacity = NAInt
                   ELSE /\ out_racks[c].capacity \in caps
                        /\ \A m \in caps : out_racks[c].capacity <= m

C5_Witness ==
    /\ pc = "racks_returned"
    /\ Len(racks) = 3
    /\ <<racks[1].capacity, racks[2].capacity, racks[3].capacity>> = <<6, 8, 4>>
    /\ Len(out_racks) = 1
    /\ racks_members[1] = 1..3
    /\ out_racks[1].capacity = 4

\* C6 as stated: a bollard with no other bollard within the radius is a row
\* of the output, with the columns and the values it came with.
C6_SingletonRowUnchanged ==
    pc = "rings_returned" =>
        \A k \in 1..Len(rings) :
            Near(rings, k, radius) = {} =>
                \E c \in 1..Len(out_rings) : out_rings[c] = rings[k]

\* C6 as amended: such a bollard is an output row of its own, at the same
\* place, of quantity 1, holding the columns that have a rule in the table
\* and no other; source, meta_status and the id keep their values, an empty
\* or missing covered is missing, a missing capacity is 0.
C6_SingletonRowAggregated ==
    pc = "rings_returned" =>
        \A k \in 1..Len(rings) :
            Near(rings, k, radius) = {} =>
                \E c \in 1..Len(out_rings) :
                    /\ rings_members[c] = {k}
                    /\ DOMAIN out_rings[c] = DOMAIN RingsAggregations \cup {"geometry"}
                    /\ out_rings[c].geometry = rings[k].geometry
                    /\ out_rings[c].quantity = 1
                    /\ out_rings[c].source = rings[k].source
                    /\ out_rings[c].meta_status = rings[k].meta_status
                    /\ out_rings[c].ref_furniture_id = rings[k].ref_furniture_id
                    /\ out_rings[c].covered =
                          (IF rings[k].covered \in {"", "null", NA} THEN NA
                           ELSE rings[k].covered)
                    /\ out_rings[c].capacity =
                          (IF rings[k].capacity = NAInt THEN 0 ELSE rings[k].capacity)

C6_Witness ==
    /\ pc = "rings_returned"
    /\ Len(rings) = 3
    /\ Near(rings, 3, radius) = {}
    /\ Near(rings, 1, radius) = {2}
    /\ rings[3].covered = ""
    /\ \E c \in 1..Len(out_rings) :
          rings_members[c] = {3} /\ out_rings[c].covered = NA

HasColumnWithoutRule(df, table) ==
    \E k \in 1..Len(df) : ~(DOMAIN df[k] \subseteq DOMAIN table \cup {"geometry"})

C9_EmptyInputEmptyOutput ==
    /\ (RingsEnded /\ rings = <<>>) => (pc = "rings_returned" /\ out_rings = <<>>)
    /\ (RacksEnded /\ racks = <<>>) => (pc = "racks_returned" /\ out_racks = <<>>)

----------------------------------------------------------------------------
(* Properties of the city data selection and of drop_mapped_city_lockers.  *)

\* the pieces of a ref value: split on ";", each piece trimmed
PiecesOf(value) ==
    {Strip(Split(value, ";")[k]) : k \in 1..Len(Split(value, ";"))}

\* some OpenStreetMap row names the id under the ref column f
ClaimedInOsm(f, id) ==
    \E k \in 1..Len(osm_combined) :
        /\ f \in DOMAIN osm_combined[k]
        /\ osm_combined[k][f] # NASeq
        /\ id \in PiecesOf(osm_combined[k][f])

\* C3: reference exclusion.  A city row whose id in a ref column is one of
\* the pieces (split on ";", trimmed) of a value some OpenStreetMap row
\* carries in that column is absent from the city rows selected.
C3_ReferenceExclusion ==
    pc \in {"osm_selection", "selected"} =>
        \A d \in DOMAIN city_loaded : \A k \in 1..Len(city_loaded[d]) :
            \A f \in RefColumns(city_loaded[d][k]) :
                ClaimedInOsm(f, city_loaded[d][k][f])
                => city_loaded[d][k] \notin Range(city_data[d])

\* "1;2" claims both the city racks "1" and "2"; nothing is left
C3_Witness ==
    /\ pc = "osm_selection"
    /\ Len(osm_combined) = 1
    /\ osm_combined[1].ref_racks_objectid = Chars("1;2")
    /\ Len(city_loaded["bicycle-parking-racks"]) = 2
    /\ city_loaded["bicycle-parking-racks"][1].ref_racks_objectid = Chars("1")
    /\ city_loaded["bicycle-parking-racks"][2].ref_racks_objectid = Chars("2")
    /\ city_data["bicycle-parking-racks"] = <<>>

\* the OpenStreetMap lockers operated by the city, at their position
CityOperatedOsmLockers ==
    {k \in 1..Len(osm_combined) :
        /\ osm_combined[k].operator # NASeq
        /\ MatchesCityOfToronto(osm_combined[k].operator)
        /\ osm_combined[k].bicycle_parking = "lockers"}

\* the squared distance from a point to the nearest of these lockers
NearestDist2(p) ==
    MinOf({Dist2(p, osm_combined[k].geometry) : k \in CityOperatedOsmLockers})

\* C4: the boundary of the suppression radius.  A city locker whose
\* nearest city-operated OpenStreetMap locker is exactly 200 m away is
\* suppressed; one whose nearest is 201 m away is retained.
C4_RadiusBoundaryInclusive ==
    pc = "lockers_returned" /\ CityOperatedOsmLockers # {} =>
        \A k \in 1..Len(lockers) :
            /\ NearestDist2(lockers[k].geometry) = radius * radius
               => lockers[k] \notin Range(lockers_unmapped)
            /\ NearestDist2(lockers[k].geometry) = (radius + 1) * (radius + 1)
               => lockers[k] \in Range(lockers_unmapped)

\* the locker at the origin is 201 m from its nearest mapped locker and
\* stays; the locker at (1,0) is 200 m from it and goes
C4_Witness ==
    /\ pc = "lockers_returned"
    /\ Len(lockers) = 2
    /\ lockers[1].geometry = Point(0, 0)
    /\ lockers[2].geometry = Point(1, 0)
    /\ CityOperatedOsmLockers # {}
    /\ NearestDist2(lockers[1].geometry) = (radius + 1) * (radius + 1)
    /\ NearestDist2(lockers[2].geometry) = radius * radius
    /\ lockers_unmapped = <<lockers[1]>>

\* the attributes of an OpenStreetMap row, the geometry left out
Attributes(row) == [a \in DOMAIN row \ {"geometry"} |-> row[a]]

HasRef(row) == \E f \in RefColumns(row) : row[f] # NASeq

OperatorIsCity(row) ==
    row.operator # NASeq /\ MatchesCityOfToronto(row.operator)

\* C10: an OpenStreetMap row is kept iff it has a value in a ref column,
\* or its operator is missing or does not match the city name, or it is a
\* locker.
C10_OsmKeptIff ==
    pc = "selected" =>
        \A k \in 1..Len(osm_combined) :
            (\E c \in 1..Len(osm_centroid) :
                Attributes(osm_centroid[c]) = Attributes(osm_combined[k]))
            <=> \/ HasRef(osm_combined[k])
                \/ ~OperatorIsCity(osm_combined[k])
                \/ osm_combined[k].bicycle_parking = "lockers"

\* two city-operated racks, the first with a ref value: only the first is
\* kept
C10_Witness ==
    /\ pc = "selected"
    /\ Len(osm_combined) = 2
    /\ OperatorIsCity(osm_combined[1]) /\ OperatorIsCity(osm_combined[2])
    /\ osm_combined[1].bicycle_parking = "rack"
    /\ osm_combined[2].bicycle_parking = "rack"
    /\ HasRef(osm_combined[1])
    /\ ~HasRef(osm_combined[2])
    /\ Len(osm_centroid) = 1
    /\ Attributes(osm_centroid[1]) = Attributes(osm_combined[1])

----------------------------------------------------------------------------
(* Properties of the stages after the city data selection.                 *)

\* the ids of the exclusion file
ExcludedIds ==
    UNION {Range(city_exclusions[e].ids) : e \in 1..Len(city_exclusions)}

\* the exclusion file names the id under the field f
Excluded(f, id) == \E x \in ExcludedIds : x.k = f /\ x.v = id

\* the text w occurs in the text t
ContainsText(t, w) ==
    \E i \in 1..(Len(t) - Len(w) + 1) : SubSeq(t, i, i + Len(w) - 1) = w

\* some row of the frame holds the id, alone or in a list, under the field f
Holds(df, f, id) ==
    \E k \in 1..Len(df) :
        /\ f \in DOMAIN df[k]
        /\ df[k][f] # NASeq
        /\ ContainsText(df[k][f], id)

\* C11: manual exclusion.  A city row whose id under a field is named by
\* the exclusion file under that field is in neither city output, the
\* unclustered and the clustered; a row whose id is named under another
\* field only, and that OpenStreetMap does not refer to, stays in the
\* unclustered output.
C11_ManualExclusion ==
    \A d \in DOMAIN city_loaded : \A k \in 1..Len(city_loaded[d]) :
        \A f \in RefColumns(city_loaded[d][k]) :
            LET id == city_loaded[d][k][f]
            IN /\ (pc \in {"excluded", "lockers_dropped", "rings_clustered",
                           "racks_deduplicated", "combined", "raised"}
                     /\ Excluded(f, id))
                  => ~Holds(city_unclustered_combined, f, id)
               /\ (pc \in {"racks_deduplicated", "combined"} /\ Excluded(f, id))
                  => ~Holds(city_full, f, id)
               /\ (pc \in {"excluded", "lockers_dropped", "rings_clustered",
                           "racks_deduplicated", "combined", "raised"}
                     /\ ~Excluded(f, id) /\ ~ClaimedInOsm(f, id))
                  => Holds(city_unclustered_combined, f, id)

\* the file names rack "r1"; the racks "r1" and "r2" and the high capacity
\* rack "r1" were loaded; the rack "r1" is gone, the other two are there
C11_Witness ==
    /\ pc = "combined"
    /\ osm_combined = <<>>
    /\ Excluded("ref_racks_objectid", RackId(1))
    /\ ~Excluded("ref_high_capacity_id", RackId(1))
    /\ Len(city_loaded["bicycle-parking-racks"]) = 2
    /\ Len(city_loaded["bicycle-parking-high-capacity-outdoor"]) = 1
    /\ ~Holds(city_full, "ref_racks_objectid", RackId(1))
    /\ Holds(city_full, "ref_racks_objectid", RackId(2))
    /\ Holds(city_full, "ref_high_capacity_id", RackId(1))

\* C12: drop_mapped_city_lockers returns the city lockers that have no
\* city-operated OpenStreetMap locker within the radius, in their order,
\* each once, with the columns and the values they came with.
C12_UnmappedLockersPassThrough ==
    pc = "lockers_returned" =>
        lockers_unmapped =
            SelectSeq(lockers,
                      LAMBDA row : \A k \in CityOperatedOsmLockers :
                          Dist2(row.geometry, osm_combined[k].geometry)
                             > radius * radius)

\* the locker at the origin has a private locker 200 m away and a city
\* locker 201 m away: it is returned; the locker at (1,0) is not
C12_Witness ==
    /\ pc = "lockers_returned"
    /\ Len(lockers) = 2
    /\ lockers[1].geometry = Point(0, 0)
    /\ lockers[2].geometry = Point(1, 0)
    /\ Len(osm_combined) = 2
    /\ CityOperatedOsmLockers = {1}
    /\ osm_combined[1].geometry = Point(201, 0)
    /\ osm_combined[2].bicycle_parking = "lockers"
    /\ osm_combined[2].geometry = Point(200, 0)
    /\ lockers_unmapped = <<lockers[1]>>

\* the racks of the zone, as they are in the two rack datasets before the
\* rack deduplication
ZoneRacks ==
    {row \in Range(city_data["bicycle-parking-high-capacity-outdoor"])
             \cup Range(city_data["bicycle-parking-racks"]) :
        row.geometry \in TmuZone}

\* the rows of city_full that hold the values of the row in its columns
SameRowsIn(df, row) ==
    {k \in 1..Len(df) : \A a \in DOMAIN row : df[k][a] = row[a]}

RacksDeduplicated == pc \in {"racks_deduplicated", "combined"}

\* C13 as stated: the racks of the zone are clustered among themselves
\* without the multi-source rule (two of them within 30 m of each other
\* become one record), and are not merged with a rack outside the zone.
C13_ZoneClusteredSeparately ==
    RacksDeduplicated =>
        /\ \A a, b \in ZoneRacks :
              a # b /\ Dist2(a.geometry, b.geometry) <= RacksEps * RacksEps
              => SameRowsIn(city_full, a) = {}
        /\ \A k \in 1..Len(racks) : racks[k].geometry \notin TmuZone

\* C13 as amended: the racks of the zone are not clustered at all.  None
\* is given to group_proximate_racks, and each is one row of city_full
\* with the columns and the values it came with; city_full has no other
\* rack at a position of the zone.
C13_ZoneRacksNotClustered ==
    RacksDeduplicated =>
        /\ \A k \in 1..Len(racks) : racks[k].geometry \notin TmuZone
        /\ \A row \in ZoneRacks : Cardinality(SameRowsIn(city_full, row)) = 1
        /\ Cardinality({k \in 1..Len(city_full) :
               /\ city_full[k].bicycle_parking = "rack"
               /\ city_full[k].geometry \in TmuZone}) = Cardinality(ZoneRacks)

\* a high capacity rack and a rack of the zone, 30 m apart, and a rack
\* outside it: three rack rows in city_full
C13_Witness ==
    /\ pc = "racks_deduplicated"
    /\ Cardinality(ZoneRacks) = 2
    /\ \E a, b \in ZoneRacks :
          /\ a.source # b.source
          /\ Dist2(a.geometry, b.geometry) = RacksEps * RacksEps
    /\ Len(racks) = 1
    /\ Cardinality({k \in 1..Len(city_full) :
           city_full[k].bicycle_parking = "rack"}) = 3

----------------------------------------------------------------------------
(* Properties of the aggregation rules.                                    *)

\* the values of covered that are neither missing nor empty, over the rows
\* dissolved into the c-th output row
CoveredValues(c) == {rings[k].covered : k \in rings_members[c]} \ {NA, ""}

\* the rows among them whose covered is missing or empty
CoveredMissing(c) == {k \in rings_members[c] : rings[k].covered \in {NA, ""}}

\* one line of the listing
ListingLine(value, count) == value \o " (n=" \o ToString(count) \o ")"

\* C14 as stated: when the values of covered that are not missing are all
\* equal, the merged row holds that value, whether or not some rows have a
\* missing or empty covered.
C14_AgreeingValueKept ==
    pc = "rings_returned" =>
        \A c \in 1..Len(out_rings) :
            Cardinality(CoveredValues(c)) = 1
            => out_rings[c].covered \in CoveredValues(c)

\* C14, what the code does in its place: a missing or empty covered counts
\* as a value of its own, "null".  The merged row holds the common value when no row is missing
\* one, is missing when every row is, and holds the listing of the value
\* and of "null" with their counts, in text order, otherwise.
C14_MissingCountsAsValue ==
    pc = "rings_returned" =>
        \A c \in 1..Len(out_rings) :
            LET present == Cardinality(rings_members[c])
                              - Cardinality(CoveredMissing(c))
                absent  == Cardinality(CoveredMissing(c))
            IN /\ CoveredValues(c) = {} => out_rings[c].covered = NA
               /\ \A v \in CoveredValues(c) :
                     CoveredValues(c) = {v} =>
                        out_rings[c].covered =
                           (IF absent = 0 THEN v
                            ELSE IF v = "no"
                            THEN ListingLine(v, present) \o "\n"
                                    \o ListingLine("null", absent)
                            ELSE ListingLine("null", absent) \o "\n"
                                    \o ListingLine(v, present))

\* two bollards 5 m apart, covered "no" and missing
C14_Witness ==
    /\ pc = "rings_returned"
    /\ Len(rings) = 2
    /\ rings[1].covered = "no"
    /\ rings[2].covered = NA
    /\ Len(out_rings) = 1
    /\ out_rings[1].covered = "no (n=1)\nnull (n=1)"

\* the first row of a set of rows, in input order
FirstMember(S) == MinOf(S)

\* the rows of a set whose value in a column is not missing, in a frame
\* whose column is text
Present(df, S, a) == {k \in S : df[k][a] # NA}

\* C15 as stated: a column ruled by "first" holds, in a merged row, the
\* value of the first of the rows merged, missing or not.
C15_FirstMemberValue ==
    /\ pc = "rings_returned" =>
          \A c \in 1..Len(out_rings) :
              out_rings[c].meta_status
                 = rings[FirstMember(rings_members[c])].meta_status
    /\ pc = "racks_returned" =>
          \A c \in 1..Len(out_racks) :
              out_racks[c].operator
                 = racks[FirstMember(racks_members[c])].operator

\* C15 as amended: it holds the value of the first of the rows merged that
\* has one, and is missing when none has; rows that differ in the column
\* raise no error.
C15_FirstPresentValue ==
    /\ pc = "rings_returned" =>
          \A c \in 1..Len(out_rings) :
              out_rings[c].meta_status =
                 (IF Present(rings, rings_members[c], "meta_status") = {} THEN NA
                  ELSE rings[FirstMember(Present(rings, rings_members[c],
                                                 "meta_status"))].meta_status)
    /\ pc = "racks_returned" =>
          \A c \in 1..Len(out_racks) :
              out_racks[c].operator =
                 (IF Present(racks, racks_members[c], "operator") = {} THEN NA
                  ELSE racks[FirstMember(Present(racks, racks_members[c],
                                                 "operator"))].operator)
    /\ (RingsEnded /\ error \in {"KeyError", "TypeError"})
          => \E k \in 1..Len(rings) : rings[k].ref_furniture_id = NASeq

\* two racks of two sources 30 m apart, the first without operator, the
\* second with one: the merged row has the operator of the second
C15_Witness ==
    /\ pc = "racks_returned"
    /\ Len(racks) = 2
    /\ racks[1].operator = NA
    /\ racks[2].operator = "Toronto Parking Authority"
    /\ Len(out_racks) = 1
    /\ out_racks[1].operator = "Toronto Parking Authority"

\* the values of an id column that are not missing, over a set of rows, in
\* input order
PresentIds(df, S, a) ==
    LET idx == SelectSeq(Ordered(S), LAMBDA k : df[k][a] # NASeq)
    IN [i \in 1..Len(idx) |-> df[idx[i]][a]]

\* C16: an id column ruled by a join holds, in a merged row, the ids of
\* the rows merged that have one, in input order, ";" between them for
\* bollards and " | " for racks; a row without id adds nothing and raises
\* no error.
C16_JoinSkipsMissing ==
    /\ (RingsEnded /\ rings # <<>>) =>
          /\ pc = "rings_returned"
          /\ \A c \in 1..Len(out_rings) :
                out_rings[c].ref_furniture_id
                   = JoinWith(<<";">>,
                              PresentIds(rings, rings_members[c], "ref_furniture_id"))
    /\ (RacksEnded /\ racks # <<>>) =>
          /\ pc = "racks_returned"
          /\ \A c \in 1..Len(out_racks) :
                Cardinality(racks_members[c]) >= 2 =>
                   \A a \in {"ref_racks_objectid", "ref_high_capacity_id"} :
                      out_racks[c][a]
                         = JoinWith(<<" ", "|", " ">>,
                                    PresentIds(racks, racks_members[c], a))

\* C16, what the code does in its place: the racks part as stated; bollards
\* whose ids are all there are merged as stated, and a bollard without id
\* ends the call with a TypeError.
C16_JoinNeedsEveryBollardId ==
    /\ (RingsEnded /\ rings # <<>>) =>
          IF \E k \in 1..Len(rings) : rings[k].ref_furniture_id = NASeq
          THEN pc = "rings_raised" /\ error = "TypeError"
          ELSE /\ pc = "rings_returned"
               /\ \A c \in 1..Len(out_rings) :
                     out_rings[c].ref_furniture_id
                        = JoinWith(<<";">>,
                              PresentIds(rings, rings_members[c], "ref_furniture_id"))
    /\ (RacksEnded /\ racks # <<>>) =>
          /\ pc = "racks_returned"
          /\ \A c \in 1..Len(out_racks) :
                Cardinality(racks_members[c]) >= 2 =>
                   \A a \in {"ref_racks_objectid", "ref_high_capacity_id"} :
                      out_racks[c][a]
                         = JoinWith(<<" ", "|", " ">>,
                                    PresentIds(racks, racks_members[c], a))

\* two bollards 5 m apart, the second without id: the call raises
C16_Witness ==
    /\ pc = "rings_raised"
    /\ error = "TypeError"
    /\ Len(rings) = 2
    /\ rings[1].ref_furniture_id = RingId(1)
    /\ rings[2].ref_furniture_id = NASeq
    /\ Dist2(rings[1].geometry, rings[2].geometry) = radius * radius

\* a capacity, a missing one counted as zero
CapacityOrZero(row) == IF row.capacity = NAInt THEN 0 ELSE row.capacity

RECURSIVE TotalCapacity(_, _)
TotalCapacity(df, S) ==
    IF S = {} THEN 0
    ELSE LET k == CHOOSE j \in S : TRUE
         IN CapacityOrZero(df[k]) + TotalCapacity(df, S \ {k})

\* C17: the capacity of a merged bollard row is the sum of the capacities
\* of the bollards merged, a missing capacity counted as zero.
C17_CapacityIsSum ==
    pc = "rings_returned" =>
        \A c \in 1..Len(out_rings) :
            out_rings[c].capacity = TotalCapacity(rings, rings_members[c])

\* three bollards in a chain, the second without capacity: 2 + 0 + 2
C17_Witness ==
    /\ pc = "rings_returned"
    /\ Len(rings) = 3
    /\ <<rings[1].capacity, rings[2].capacity, rings[3].capacity>> = <<2, NAInt, 2>>
    /\ Len(out_rings) = 1
    /\ out_rings[1].capacity = 4

----------------------------------------------------------------------------
(* File output: save_output.                                               *)
(* A path is the sequence of its components below the working directory;   *)
(* the working directory itself is <<>> and always exists.                 *)

None == <<>>

sfp == <<"Source Files">>
ofp == <<"Output Files">>

\* the dates of the runs: yesterday's and today's
MaxDates == 2
IsoDates == [k \in 1..MaxDates |-> <<"2026-11-05", "2026-11-06", "2026-11-07">>[k]]

\* archive_name = f"archive/{today_toronto_isodate}/" if archive else None
archive_name_of(archive, today_toronto_isodate) ==
    IF archive THEN <<"archive", today_toronto_isodate>> ELSE None

Parent(p) == SubSeq(p, 1, Len(p) - 1)

\* a file system: the folders, the files and the writes made so far
FileSystem(dirs, files, writes) ==
    [dirs |-> dirs, files |-> files, writes |-> writes, error |-> "none"]

\* Path.mkdir(exist_ok=True), parents=False: an existing folder is left
\* alone, a new one needs its parent
mkdir(fs, p) ==
    IF p \in fs.dirs THEN fs
    ELSE IF Parent(p) = <<>> \/ Parent(p) \in fs.dirs
         THEN [fs EXCEPT !.dirs = @ \cup {p}]
         ELSE [fs EXCEPT !.error = "FileNotFoundError"]

\* with open(p, "w") as f: f.write(content)
write(fs, p, content) ==
    IF Parent(p) # <<>> /\ Parent(p) \notin fs.dirs
    THEN [fs EXCEPT !.error = "FileNotFoundError"]
    ELSE [fs EXCEPT !.files = (p :> content) @@ @, !.writes = Append(@, p)]

output_paths(path, archive) ==
    IF Len(archive) > 0 THEN <<path, path \o archive>> ELSE <<path>>

\* what is written: the GeoDataFrame as to_json(na=na) gives it, or the
\* GeoJSON dict as geojson.dump gives it, where na plays no part
Written(output, na) ==
    IF output.kind = "GeoDataFrame" THEN [data |-> output.data, na |-> na]
    ELSE [data |-> output.data, na |-> "keep"]

\* the loop over output_paths, from the k-th on; the first exception ends it
RECURSIVE SaveTo(_, _, _, _, _)
SaveTo(fs, ops, k, file_name, content) ==
    IF k > Len(ops) THEN fs
    ELSE LET made == mkdir(fs, ops[k])
         IN IF made.error # "none" THEN made
            ELSE LET written == write(made, ops[k] \o <<file_name>>, content)
                 IN IF written.error # "none" THEN written
                    ELSE SaveTo(written, ops, k + 1, file_name, content)

save_output(fs, output, path, file_name, archive, na) ==
    SaveTo(fs, output_paths(path, archive), 1, file_name, Written(output, na))

\* the folders a run can find: each with its parent
OutputDirs ==
    { sfp, sfp \o <<"archive">>, ofp, ofp \o <<"archive">> }
    \cup { sfp \o <<"archive", IsoDates[k]>> : k \in 1..MaxDates }
    \cup { ofp \o <<"archive", IsoDates[k]>> : k \in 1..MaxDates }

DirStates == { D \in SUBSET OutputDirs : \A p \in D : Parent(p) = <<>> \/ Parent(p) \in D }

FileNames == {"bicycle-parking-racks.geojson"}

Outputs ==
    { [kind |-> "GeoDataFrame", data |-> "normalized"],
      [kind |-> "dict", data |-> "response"] }

OlderContent == [data |-> "older", na |-> "keep"]

InitSave ==
    /\ pc = "save_output"
    /\ error = "none"
    /\ radius = LockersDefaultRadius
    /\ NoGrouping
    /\ NoSelection
    /\ NoDownstream
    /\ SingleRun
    /\ fs_dirs \in DirStates
    /\ \E F \in SUBSET { d \o <<f>> : d \in {sfp, ofp} \cap fs_dirs, f \in FileNames } :
          fs_files = [p \in F |-> OlderContent]
    /\ fs_writes = <<>>
    /\ \E archive \in BOOLEAN :
          archive_name = archive_name_of(archive, IsoDates[MaxDates])
    /\ \E output \in Outputs, path \in {sfp, ofp}, file_name \in FileNames,
          na \in {"drop", "null"} :
          save_call = [output |-> output, path |-> path, file_name |-> file_name,
                       archive_name |-> archive_name, na |-> na]
    /\ datasets = <<>>
    /\ statuses = <<>>
    /\ dataset_index = 0

\* lines 57-80
CallSaveOutput ==
    /\ pc = "save_output"
    /\ LET fs == save_output(FileSystem(fs_dirs, fs_files, fs_writes),
                             save_call.output, save_call.path,
                             save_call.file_name, save_call.archive_name,
                             save_call.na)
       IN /\ pc' = IF fs.error = "none" THEN "saved" ELSE "save_raised"
          /\ error' = fs.error
          /\ fs_dirs' = fs.dirs
          /\ fs_files' = fs.files
          /\ fs_writes' = fs.writes
    /\ UNCHANGED <<radius, save_call, archive_name, datasets, statuses,
                   dataset_index>>
    /\ UNCHANGED <<grouping_vars, selection_vars, downstream_vars, runs_vars>>

NextSave == CallSaveOutput

SpecSave == InitSave /\ [][NextSave]_vars

SaveEnded == pc \in {"saved", "save_raised"}

\* the file holds what this call wrote
HoldsOutput(p) ==
    /\ p \in DOMAIN fs_files
    /\ fs_files[p] = Written(save_call.output, save_call.na)

\* C19: save_output writes path/file_name and, with an archive name, also
\* path/archive_name/file_name, making the folders it needs, whatever
\* folders exist when it is called.
C19_SavedInPathAndArchive ==
    SaveEnded =>
        /\ HoldsOutput(save_call.path \o <<save_call.file_name>>)
        /\ save_call.archive_name # None =>
              HoldsOutput(save_call.path \o save_call.archive_name
                          \o <<save_call.file_name>>)
        /\ save_call.archive_name = None =>
              fs_writes = <<save_call.path \o <<save_call.file_name>>>>

\* what the code does: the archive copy needs the folder "archive" of the
\* path to exist already; without it the call ends in FileNotFoundError
\* after path/file_name is written.
C19_ArchiveNeedsItsParent ==
    SaveEnded =>
        /\ HoldsOutput(save_call.path \o <<save_call.file_name>>)
        /\ pc = "save_raised" <=>
              /\ save_call.archive_name # None
              /\ save_call.path \o <<"archive">> \notin fs_dirs
        /\ pc = "saved" /\ save_call.archive_name # None =>
              HoldsOutput(save_call.path \o save_call.archive_name
                          \o <<save_call.file_name>>)

\* a first run with the archive option: no folder exists, the call has ended
C19_Witness ==
    /\ SaveEnded
    /\ save_call.archive_name # None
    /\ save_call.path = sfp
    /\ fs_dirs = {sfp}
    /\ error = "FileNotFoundError"

----------------------------------------------------------------------------
(* The update of the city sources: run_update and its loop.                *)
(* A date-time is a whole number of days.                                  *)

MaxDatasets == 2

\* sources["city"]["datasets"], in the order of the file
DatasetNames ==
    <<"bicycle-parking-racks", "street-furniture-bicycle-parking",
      "bicycle-parking-high-capacity-outdoor">>

\* metadata_resource["last_modified"] of the source
LastUpdatedSamples == {1, 2}

\* when the source is queried: datetime.now(timezone.utc)
Clock == {3, 4}

\* conversions/__init__.py lines 16-26: the module of a dataset; a name
\* that no branch tests falls off the end of the function, which returns
\* None
get_map(dataset_name) ==
    CASE dataset_name = "bicycle-parking-high-capacity-outdoor" ->
            <<"conversions", "_bicycle_parking_high_capacity_outdoor">>
      [] dataset_name = "bicycle-parking-racks" ->
            <<"conversions", "_bicycle_parking_racks">>
      [] dataset_name = "bicycle-parking-bike-stations-indoor" ->
            <<"conversions", "_bicycle_parking_bike_stations_indoor">>
      [] dataset_name = "street-furniture-bicycle-parking" ->
            <<"conversions", "_street_furniture_bicycle_parking">>
      [] dataset_name = "osm_bicycle_parking_city_of_toronto" ->
            <<"conversions", "_osm_bicycle_parking_city_of_toronto">>
      [] OTHER -> None

\* the attribute of a module, or of None: "'NoneType' object has no
\* attribute ..."
getattr(module, attribute) ==
    IF module = None THEN [error |-> "AttributeError", function |-> None]
    ELSE [error |-> "none", function |-> module \o <<attribute>>]

\* conversions/__init__.py lines 29-36
get_filter(dataset_name) == getattr(get_map(dataset_name), "filter_properties")

\* conversions/__init__.py lines 39-46
get_transform(dataset_name) ==
    getattr(get_map(dataset_name), "transform_properties")

\* the filter functions of the conversion modules, by dataset: the rack
\* and the street furniture modules test STATUS, the others keep all
filter_properties(dataset_name, properties) ==
    CASE dataset_name = "bicycle-parking-racks" -> properties.STATUS = "Installed"
      [] dataset_name = "street-furniture-bicycle-parking" ->
            properties.STATUS = "Existing"
      [] OTHER -> TRUE

\* BikeDataToronto.normalize: the features the filter keeps, each with the
\* global properties; the transform of the other properties is not modelled
normalize(bike_data) ==
    LET filtered_features ==
            SelectSeq(bike_data.response_geojson,
                      LAMBDA feature :
                          filter_properties(bike_data.dataset_name, feature))
    IN [k \in 1..Len(filtered_features) |->
           [id |-> filtered_features[k].id,
            meta_source_dataset |-> bike_data.dataset_name,
            meta_source_last_updated |-> bike_data.last_updated]]

\* a status without entries, as setdefault(dataset_name, {}) makes it
EmptyStatus ==
    [last_updated |-> NAInt, num_normalized_features |-> NAInt,
     last_checked |-> NAInt, days_since_source_update |-> NAInt]

\* a status as an earlier run recorded it
RecordedStatus(last_updated) ==
    [last_updated |-> last_updated, num_normalized_features |-> 1,
     last_checked |-> 2, days_since_source_update |-> 2 - last_updated]

StatusOf(stats, dataset_name) ==
    IF dataset_name \in DOMAIN stats THEN stats[dataset_name] ELSE EmptyStatus

\* line 181
na_option(bike_data) ==
    IF bike_data.wrapper = "BikeDataOSM" THEN "drop" ELSE "null"

\* lines 136-203; now is the time of the query
run_update(fs, bike_data, dataset_status, archive, now) ==
    LET source_saved ==
            save_output(fs, [kind |-> "dict", data |-> bike_data.response_geojson],
                        sfp, bike_data.dataset_name \o ".geojson", archive, "drop")
        normalized_gdf == normalize(bike_data)
        output_saved ==
            save_output(source_saved,
                        [kind |-> "GeoDataFrame", data |-> normalized_gdf],
                        ofp, bike_data.dataset_name \o "-normalized.geojson",
                        archive, na_option(bike_data))
    IN IF source_saved.error # "none"
       THEN [fs |-> source_saved, status |-> dataset_status]
       \* lines 176-177
       ELSE IF \/ get_filter(bike_data.dataset_name).error # "none"
               \/ get_transform(bike_data.dataset_name).error # "none"
       THEN [fs |-> [source_saved EXCEPT !.error = "AttributeError"],
             status |-> dataset_status]
       ELSE IF output_saved.error # "none"
       THEN [fs |-> output_saved, status |-> dataset_status]
       ELSE [fs |-> output_saved,
             status |->
                [last_updated |-> bike_data.last_updated,
                 num_normalized_features |-> Len(normalized_gdf),
                 last_checked |-> now,
                 days_since_source_update |-> now - bike_data.last_updated]]

status_fp == <<"Data Pipeline", "statuses">>
city_status_path == status_fp \o <<"open_toronto_ca_statuses.json">>

\* one feature of a source, or none
FeatureSamples ==
    { <<>>, <<[id |-> 1, STATUS |-> "Installed"]>>,
      <<[id |-> 1, STATUS |-> "Existing"]>> }

BikeDataToronto(k, last_updated, features) ==
    [wrapper |-> "BikeDataToronto", dataset_name |-> DatasetNames[k],
     last_updated |-> last_updated, response_geojson |-> features]

\* the output folders a run finds: none, the plain ones, or those of a run
\* with the archive option on an earlier day
UpdateDirStates ==
    { {}, {sfp, ofp},
      {sfp, ofp, sfp \o <<"archive">>, ofp \o <<"archive">>,
       sfp \o <<"archive", IsoDates[1]>>, ofp \o <<"archive", IsoDates[1]>>} }

InitUpdate ==
    /\ pc = "update_city"
    /\ error = "none"
    /\ radius = LockersDefaultRadius
    /\ NoGrouping
    /\ NoSelection
    /\ NoDownstream
    /\ SingleRun
    /\ save_call = <<>>
    /\ \E archive \in BOOLEAN :
          archive_name = archive_name_of(archive, IsoDates[MaxDates])
    /\ \E n \in 1..MaxDatasets :
         \E u \in [1..n -> LastUpdatedSamples], f \in [1..n -> FeatureSamples] :
              datasets = [k \in 1..n |-> BikeDataToronto(k, u[k], f[k])]
    /\ dataset_index = 1
    /\ \E N \in SUBSET {DatasetNames[k] : k \in 1..MaxDatasets} :
         \E u \in [N -> LastUpdatedSamples] :
              statuses = [name \in N |-> RecordedStatus(u[name])]
    /\ \E D \in UpdateDirStates :
          IF statuses = <<>>
          THEN /\ fs_dirs \in { D \cup {<<"Data Pipeline">>},
                                D \cup {<<"Data Pipeline">>, status_fp} }
               /\ fs_files = <<>>
          ELSE /\ fs_dirs = D \cup {<<"Data Pipeline">>, status_fp}
               /\ fs_files = (city_status_path :> [data |-> statuses, na |-> "keep"])
    /\ fs_writes = <<>>

\* lines 208-216: one turn of the loop over the city datasets
UpdateCityDataset ==
    /\ pc = "update_city"
    /\ dataset_index <= Len(datasets)
    /\ \E now \in Clock :
         LET bdt == datasets[dataset_index]
             dataset_status == StatusOf(statuses, bdt.dataset_name)
             updated == run_update(FileSystem(fs_dirs, fs_files, fs_writes), bdt,
                                   dataset_status, archive_name, now)
         IN /\ fs_dirs' = updated.fs.dirs
            /\ fs_files' = updated.fs.files
            /\ fs_writes' = updated.fs.writes
            /\ error' = updated.fs.error
            /\ statuses' = (bdt.dataset_name :> updated.status) @@ statuses
            /\ IF updated.fs.error = "none"
               THEN pc' = "update_city" /\ dataset_index' = dataset_index + 1
               ELSE pc' = "update_raised" /\ UNCHANGED dataset_index
    /\ UNCHANGED <<radius, save_call, archive_name, datasets>>
    /\ UNCHANGED <<grouping_vars, selection_vars, downstream_vars, runs_vars>>

\* lines 218-223: the status file is written after the loop
SaveCityStatuses ==
    /\ pc = "update_city"
    /\ dataset_index > Len(datasets)
    /\ LET made == IF status_fp \in fs_dirs
                   THEN FileSystem(fs_dirs, fs_files, fs_writes)
                   ELSE mkdir(FileSystem(fs_dirs, fs_files, fs_writes), status_fp)
           written == write(made, city_status_path,
                            [data |-> statuses, na |-> "keep"])
       IN /\ pc' = "city_updated"
          /\ fs_dirs' = written.dirs
          /\ fs_files' = written.files
          /\ fs_writes' = written.writes
    /\ UNCHANGED <<error, radius, save_call, archive_name, datasets, statuses,
                   dataset_index>>
    /\ UNCHANGED <<grouping_vars, selection_vars, downstream_vars, runs_vars>>

NextUpdate == UpdateCityDataset \/ SaveCityStatuses

SpecUpdate == InitUpdate /\ [][NextUpdate]_vars

\* last_updated as the status file on disk records it, before the run
\* writes the file again
RecordedLastUpdated(dataset_name) ==
    IF city_status_path \in DOMAIN fs_files
    THEN StatusOf(fs_files[city_status_path].data, dataset_name).last_updated
    ELSE NAInt

\* the files run_update writes for a dataset
FilesOf(dataset_name) ==
    { d \o <<dataset_name \o ".geojson">> :
          d \in {sfp, sfp \o archive_name} }
    \cup { d \o <<dataset_name \o "-normalized.geojson">> :
          d \in {ofp, ofp \o archive_name} }

WrittenFilesOf(dataset_name) ==
    { p \in FilesOf(dataset_name) : \E k \in 1..Len(fs_writes) : fs_writes[k] = p }

\* C20: run_update saves the source file and the normalized output only
\* when the source has changed since the recorded last_updated; for a
\* dataset whose last_updated equals the recorded one no file is rewritten.
C20_SavedOnlyWhenChanged ==
    pc \in {"update_city", "update_raised"} =>
        \A k \in 1..Len(datasets) :
            WrittenFilesOf(datasets[k].dataset_name) # {} =>
                \/ RecordedLastUpdated(datasets[k].dataset_name) = NAInt
                \/ datasets[k].last_updated >
                       RecordedLastUpdated(datasets[k].dataset_name)

\* what the code does: the recorded last_updated is read and not used;
\* every dataset the loop has handled has its two files written.
C20_SavedAtEveryRun ==
    pc = "update_city" =>
        \A k \in 1..(dataset_index - 1) :
            /\ sfp \o <<datasets[k].dataset_name \o ".geojson">>
                   \in WrittenFilesOf(datasets[k].dataset_name)
            /\ ofp \o <<datasets[k].dataset_name \o "-normalized.geojson">>
                   \in WrittenFilesOf(datasets[k].dataset_name)

\* the loop has handled a dataset whose last_updated is the recorded one
C20_Witness ==
    /\ pc = "update_city"
    /\ dataset_index = 2
    /\ RecordedLastUpdated(datasets[1].dataset_name) = datasets[1].last_updated
    /\ sfp \in fs_dirs

----------------------------------------------------------------------------
(* The downstream stages run twice on the same inputs.                     *)

MaxRepeatRacks == 1
MaxRepeatBollards == 2
MaxRepeatExclusions == 1

\* the inputs of InitPipeline, fewer of them
InitRepeat ==
    /\ pc = "city_data_selection"
    /\ error = "none"
    /\ radius = LockersDefaultRadius
    /\ \E n \in 0..MaxRepeatRacks, h \in 0..1, b \in 0..MaxRepeatBollards :
         \E g \in [1..n -> PipelineRackPositions],
            gh \in [1..h -> HighCapacityPositions],
            gb \in [1..b -> PipelineBollardPositions] :
              city_loaded = LoadPipelineCityData(
                  [k \in 1..h |-> DatasetRack(k, gh[k],
                                      "bicycle-parking-high-capacity-outdoor")],
                  [k \in 1..n |-> DatasetRack(k, g[k], "bicycle-parking-racks")],
                  [k \in 1..b |-> Bollard(k, gb[k], "no", 2)])
    /\ city_data = city_loaded
    /\ \E n \in 0..1 : \E o \in [1..n -> PipelineOsmRows] : osm_combined = o
    /\ lockers = <<Locker(Point(0, 0))>>
    /\ \E n \in 0..MaxRepeatExclusions : \E ids \in [1..n -> ExclusionIds] :
          city_exclusions = [e \in 1..n |-> [ids |-> <<ids[e]>>]]
    /\ id_lists = <<>>
    /\ osm_centroid = <<>>
    /\ lockers_unmapped = <<>>
    /\ city_unclustered_combined = <<>>
    /\ city_full = <<>>
    /\ all_sources = <<>>
    /\ NoGrouping
    /\ NoFiles
    /\ SingleRun

\* what a run of lines 315-451 ends with
Outcome ==
    [pc |-> pc, error |-> error,
     city_unclustered_combined |-> city_unclustered_combined,
     city_full |-> city_full, osm_centroid |-> osm_centroid,
     lockers_unmapped |-> lockers_unmapped, all_sources |-> all_sources]

\* the script is run again: the same files are loaded (lines 226-296, 359-365)
\* and nothing of the first run is left in memory
RunAgain ==
    /\ pc \in {"combined", "raised"}
    /\ run = 1
    /\ run' = 2
    /\ first_run' = Outcome
    /\ pc' = "city_data_selection"
    /\ error' = "none"
    /\ city_data' = city_loaded
    /\ id_lists' = <<>>
    /\ osm_centroid' = <<>>
    /\ lockers_unmapped' = <<>>
    /\ city_unclustered_combined' = <<>>
    /\ city_full' = <<>>
    /\ all_sources' = <<>>
    /\ rings' = <<>>
    /\ out_rings' = <<>>
    /\ rings_members' = <<>>
    /\ racks' = <<>>
    /\ out_racks' = <<>>
    /\ racks_members' = <<>>
    /\ UNCHANGED <<radius, lockers, osm_combined, city_loaded, city_exclusions>>
    /\ UNCHANGED files_vars

NextRepeat == NextPipeline \/ RunAgain

SpecRepeat == InitRepeat /\ [][NextRepeat]_vars

----------------------------------------------------------------------------
(* Properties of the clusters, of the merged geometry and of the listing.  *)

\* the geometry column of a frame
CoordinatesOf(df) == [k \in 1..Len(df) |-> df[k].geometry]

\* the rows of df in the order perm
Permuted(df, perm) == [k \in 1..Len(df) |-> df[perm[k]]]

\* rows i and j carry the label of one cluster
SameCluster(labels, i, j) == labels[i] >= 0 /\ labels[i] = labels[j]

\* the points DBSCAN puts together are the points joined by a chain of
\* steps of at most eps, in the order given and in every other order
ClustersAreChains(df, eps, min_samples) ==
    LET labels == DBSCAN(CoordinatesOf(df), eps, min_samples)
    IN /\ \A i, j \in 1..Len(df) :
             i # j => (SameCluster(labels, i, j) <=> j \in ChainFrom(df, {i}, eps))
       /\ \A perm \in Permutations(1..Len(df)) :
             LET relabelled == DBSCAN(CoordinatesOf(Permuted(df, perm)), eps, min_samples)
             IN \A i, j \in 1..Len(df) :
                   i # j => (SameCluster(relabelled, i, j)
                                <=> SameCluster(labels, perm[i], perm[j]))

\* C21: in both grouping operations two points are in one cluster iff a
\* chain of points, each step of at most the radius (5 m for bollards, 30 m
\* for racks, the radius itself included), joins them; the grouping is the
\* same in every order of the input.
C21_ClustersAreChainComponents ==
    /\ pc = "rings_returned" =>
          /\ ClustersAreChains(rings, RingsDefaultRadius, RingsMinSamples)
          /\ \A i, j \in 1..Len(rings) :
                (\E c \in 1..Len(out_rings) : {i, j} \subseteq rings_members[c])
                <=> j \in ChainFrom(rings, {i}, RingsDefaultRadius)
    /\ pc = "racks_returned" =>
          ClustersAreChains(racks, RacksDefaultRadius, RacksMinSamples)

\* three bollards in a row, each step exactly 5 m, the ends 6 m apart: one
\* cluster
C21_Witness ==
    /\ pc = "rings_returned"
    /\ Len(rings) = 3
    /\ Dist2(rings[1].geometry, rings[3].geometry) = 25
    /\ Dist2(rings[3].geometry, rings[2].geometry) = 25
    /\ Dist2(rings[1].geometry, rings[2].geometry) = 36
    /\ Len(out_rings) = 1
    /\ rings_members[1] = 1..3

\* the ref column a rack row has its id in
OwnIdColumn(row) ==
    CASE row.source = "bicycle-parking-racks" -> "ref_racks_objectid"
      [] row.source = "bicycle-parking-high-capacity-outdoor" -> "ref_high_capacity_id"
      [] row.source = "street-furniture-bicycle-parking" -> "ref_furniture_id"
      [] OTHER -> "ref_stations_id"

\* the clusters group_proximate_racks accepts: the chains of racks that
\* hold racks of two sources or more
AcceptedClusters(df, eps) ==
    {S \in {ChainFrom(df, {k}, eps) : k \in 1..Len(df)} :
        Cardinality(SourcesOf(df, S)) >= 2}

\* the input racks whose id a row lists in the ref column of their source
MembersNamed(row, df) ==
    {k \in 1..Len(df) :
        /\ row[OwnIdColumn(df[k])] # NASeq
        /\ ContainsText(row[OwnIdColumn(df[k])], df[k][OwnIdColumn(df[k])])}

MeanPosition(df, S) ==
    LET sx == SumOver([k \in 1..Len(df) |-> df[k].geometry.x], S)
        sy == SumOver([k \in 1..Len(df) |-> df[k].geometry.y], S)
        n  == Cardinality(S)
        g  == GCD(GCD(Abs(sx), Abs(sy)), n)
    IN [x |-> sx \div g, y |-> sy \div g, d |-> n \div g]

\* the mean of the distinct positions of the rows S of df
MeanDistinctPosition(df, S) == Centroid({df[k].geometry : k \in S})

\* C23: the geometry of a merged row, of bollards or of racks, is the mean
\* position of its members, each member counted once, two members at the
\* same coordinates included.
C23_GeometryIsMeanOfMembers ==
    /\ pc = "rings_returned" =>
          \A c \in 1..Len(out_rings) :
              out_rings[c].geometry = MeanPosition(rings, rings_members[c])
    /\ pc = "racks_returned" =>
          \A c \in 1..Len(out_racks) :
              out_racks[c].geometry = MeanPosition(racks, racks_members[c])

\* what the code does: dissolve() unites the member points, the union holds
\* each coordinate once, and the centroid is the mean of the distinct
\* positions of the members.
C23_GeometryIsMeanOfDistinct ==
    /\ pc = "rings_returned" =>
          \A c \in 1..Len(out_rings) :
              out_rings[c].geometry = MeanDistinctPosition(rings, rings_members[c])
    /\ pc = "racks_returned" =>
          \A c \in 1..Len(out_racks) :
              out_racks[c].geometry = MeanDistinctPosition(racks, racks_members[c])

\* two bollards at (0,0) and one at (3,4): the merged row lies at
\* (3/2, 2), the mean of the three positions is (1, 4/3)
C23_Witness ==
    /\ pc = "rings_returned"
    /\ Len(rings) = 3
    /\ rings[1].geometry = Point(0, 0)
    /\ rings[2].geometry = Point(0, 0)
    /\ rings[3].geometry = Point(3, 4)
    /\ Len(out_rings) = 1
    /\ out_rings[1].geometry = [x |-> 3, y |-> 4, d |-> 2]
    /\ MeanPosition(rings, 1..3) = [x |-> 3, y |-> 4, d |-> 3]

\* the bucket a value of covered is counted in
BucketOf(value) == IF value \in {NA, ""} THEN "null" ELSE value

\* the rows of the merged row c counted in a bucket
InBucket(c, b) == {k \in rings_members[c] : BucketOf(rings[k].covered) = b}

\* the listing of the buckets of the merged row c: a line for each bucket
\* that is not empty, in text order
ListingOf(c) ==
    LET buckets == SelectSeq(<<"no", "null", "yes">>,
                             LAMBDA b : InBucket(c, b) # {})
    IN JoinText("\n", [i \in 1..Len(buckets) |->
                          ListingLine(buckets[i],
                                      Cardinality(InBucket(c, buckets[i])))])

\* the members of the merged row c disagree on covered
Disagreeing(c) == Cardinality(CoveredValues(c)) > 1

\* the text "null" occurs in a value of covered
MentionsNull(value) == value # NA /\ ContainsText(value, "null")

\* C24 as stated: when the bollards of a cluster hold more than one value
\* of covered, the merged row lists each value once with its count, in
\* text order, one line each, the missing and empty ones in one bucket;
\* the counts add up to the size of the cluster; and the merged row does
\* not hold the text "null" in covered.
C24_ListingWithoutNull ==
    pc = "rings_returned" =>
        \A c \in 1..Len(out_rings) :
            Disagreeing(c) =>
                /\ out_rings[c].covered = ListingOf(c)
                /\ ~MentionsNull(out_rings[c].covered)

\* C24 as amended: the listing is as stated, and its line for the missing
\* and empty values reads "null (n=count)"; a value that is "null" as a
\* whole, every member missing or empty, is made missing.
C24_ListingKeepsNullLine ==
    pc = "rings_returned" =>
        \A c \in 1..Len(out_rings) :
            /\ Disagreeing(c) =>
                  /\ out_rings[c].covered = ListingOf(c)
                  /\ Cardinality(InBucket(c, "no")) + Cardinality(InBucket(c, "null"))
                        + Cardinality(InBucket(c, "yes"))
                        = Cardinality(rings_members[c])
                  /\ MentionsNull(out_rings[c].covered) <=> InBucket(c, "null") # {}
            /\ out_rings[c].covered # "null"
            /\ CoveredValues(c) = {} => out_rings[c].covered = NA

\* three bollards in one cluster, covered "yes", missing and "no"
C24_Witness ==
    /\ pc = "rings_returned"
    /\ Len(rings) = 3
    /\ <<rings[1].covered, rings[2].covered, rings[3].covered>> = <<"yes", NA, "no">>
    /\ Len(out_rings) = 1
    /\ out_rings[1].covered = "no (n=1)\nnull (n=1)\nyes (n=1)"

----------------------------------------------------------------------------
(* The stages run on street furniture of every kind.                       *)

MaxCivicFurniture == 2

\* bicycle_parking of a furniture row, from ASSETTYPE: Ring and Art Stand,
\* Rack and Shelter, Other, and an asset type the conversion does not know
FurnitureKinds == {"bollard", "rack", "stands", NA}

\* a row of street-furniture-bicycle-parking: the capacity is 2 for a
\* bollard and for stands, unknown otherwise
FurnitureRow(k, g, kind) ==
    [Bollard(k, g, "no", IF kind \in {"bollard", "stands"} THEN 2 ELSE NAInt)
        EXCEPT !.bicycle_parking = kind]

\* outside the zone and inside it
CivicRackPositions == {Point(0, 0), Point(100, 0)}

InitCivic ==
    /\ pc = "city_data_selection"
    /\ error = "none"
    /\ radius = LockersDefaultRadius
    /\ \E n \in 0..1, h \in 0..1, b \in 0..MaxCivicFurniture :
         \E g \in [1..n -> CivicRackPositions],
            gh \in [1..h -> CivicRackPositions],
            gb \in [1..b -> PipelineBollardPositions],
            kind \in [1..b -> FurnitureKinds] :
              city_loaded = LoadPipelineCityData(
                  [k \in 1..h |-> DatasetRack(k, gh[k],
                                      "bicycle-parking-high-capacity-outdoor")],
                  [k \in 1..n |-> DatasetRack(k, g[k], "bicycle-parking-racks")],
                  [k \in 1..b |-> FurnitureRow(k, gb[k], kind[k])])
    /\ city_data = city_loaded
    /\ \E n \in 0..1 : \E o \in [1..n -> PipelineOsmRows] : osm_combined = o
    /\ lockers = <<Locker(Point(0, 0))>>
    /\ \E n \in 0..1 : \E ids \in [1..n -> ExclusionIds] :
          city_exclusions = [e \in 1..n |-> [ids |-> <<ids[e]>>]]
    /\ id_lists = <<>>
    /\ osm_centroid = <<>>
    /\ lockers_unmapped = <<>>
    /\ city_unclustered_combined = <<>>
    /\ city_full = <<>>
    /\ all_sources = <<>>
    /\ NoGrouping
    /\ NoFiles
    /\ SingleRun

SpecCivic == InitCivic /\ [][NextPipeline]_vars

\* a row of the output stands for the city row r: it holds the id of r, by
\* itself or in a list, in the ref column of the dataset of r
NamesId(row, r) ==
    /\ OwnIdColumn(r) \in DOMAIN row
    /\ row[OwnIdColumn(r)] # NASeq
    /\ ContainsText(row[OwnIdColumn(r)], r[OwnIdColumn(r)])

\* C25: every city row left after the reference step and the manual
\* exclusion is in the final city output exactly once, as a row of its own
\* or as a member of one merged row, and the output holds nothing else;
\* a row whose bicycle_parking is missing is no exception.
C25_CivicRecordsConserved ==
    pc \in {"racks_deduplicated", "combined"} =>
        /\ \A i \in 1..Len(city_unclustered_combined) :
              Cardinality({c \in 1..Len(city_full) :
                              NamesId(city_full[c], city_unclustered_combined[i])}) = 1
        /\ \A c \in 1..Len(city_full) :
              \E i \in 1..Len(city_unclustered_combined) :
                  NamesId(city_full[c], city_unclustered_combined[i])

\* a bollard, a furniture row without bicycle_parking, and a rack merged
\* from two datasets: four rows with the bike station
C25_Witness ==
    /\ pc = "combined"
    /\ Len(city_unclustered_combined) = 5
    /\ \E i \in 1..5 : city_unclustered_combined[i].bicycle_parking = NA
    /\ \E i \in 1..5 : city_unclustered_combined[i].bicycle_parking = "bollard"
    /\ Len(city_full) = 4
    /\ city_full[1].source = "city-multi"
    /\ \E c \in 1..4 : city_full[c].bicycle_parking = NA

\* the city rows as loaded, all datasets together
LoadedRows == UNION {Range(city_loaded[d]) : d \in DOMAIN city_loaded}

\* a city row the reference step or the manual exclusion drops: its id is
\* claimed by an OpenStreetMap row or named by the exclusion file, under
\* the ref column of its dataset
Dropped(r) ==
    \/ ClaimedInOsm(OwnIdColumn(r), r[OwnIdColumn(r)])
    \/ Excluded(OwnIdColumn(r), r[OwnIdColumn(r)])

\* the city rows a merged row lists
MembersOf(row) == {r \in LoadedRows : NamesId(row, r)}

\* C26: exclusion comes before aggregation.  A city row dropped by the
\* reference step or by the manual exclusion is listed by no row of the
\* grouped outputs, and a group of bollards counts and sums the capacity of
\* the rows it lists and of no other; the unclustered output holds the rows
\* not dropped, each once and as loaded, and stays so through the grouping.
\* (A bollard of these inputs has capacity 2.)
C26_ExclusionBeforeAggregation ==
    pc \in {"excluded", "lockers_dropped", "rings_clustered",
            "racks_deduplicated", "combined"} =>
        /\ \A r \in LoadedRows :
              Cardinality({i \in 1..Len(city_unclustered_combined) :
                              /\ NamesId(city_unclustered_combined[i], r)
                              /\ \A a \in DOMAIN r :
                                    city_unclustered_combined[i][a] = r[a]})
                 = (IF Dropped(r) THEN 0 ELSE 1)
        /\ Len(city_unclustered_combined) =
              Cardinality({r \in LoadedRows : ~Dropped(r)})
        /\ \A r \in LoadedRows :
              Dropped(r) =>
                 /\ \A c \in 1..Len(out_rings) : ~NamesId(out_rings[c], r)
                 /\ \A c \in 1..Len(out_racks) : ~NamesId(out_racks[c], r)
                 /\ \A c \in 1..Len(city_full) : ~NamesId(city_full[c], r)
        /\ \A c \in 1..Len(out_rings) :
              /\ out_rings[c].quantity = Cardinality(MembersOf(out_rings[c]))
              /\ out_rings[c].capacity = 2 * Cardinality(MembersOf(out_rings[c]))

\* two bollards 5 m apart, the first named by the exclusion file: the group
\* is the second alone
C26_Witness ==
    /\ pc = "combined"
    /\ Len(city_loaded["street-furniture-bicycle-parking"]) = 2
    /\ \A k \in 1..2 :
          city_loaded["street-furniture-bicycle-parking"][k].bicycle_parking = "bollard"
    /\ Dist2(city_loaded["street-furniture-bicycle-parking"][1].geometry,
             city_loaded["street-furniture-bicycle-parking"][2].geometry) = 25
    /\ Excluded("ref_furniture_id", RingId(1))
    /\ Len(out_rings) = 1
    /\ out_rings[1].quantity = 1
    /\ out_rings[1].ref_furniture_id = RingId(2)

----------------------------------------------------------------------------
(* Properties of the reference step, of the locker step and of the radius. *)

\* the city row was loaded and is not among the rows selected
DroppedByReference(d, k) == city_loaded[d][k] \notin Range(city_data[d])

\* some OpenStreetMap row with a value in a ref column has none in f: its
\* missing value is listed under f as the text "<NA>"
MissingListedUnder(f) ==
    \E k \in 1..Len(osm_combined) :
        /\ HasRef(osm_combined[k])
        /\ f \in DOMAIN osm_combined[k]
        /\ osm_combined[k][f] = NASeq

\* C27: the reference step drops a city row only if, for some ref column,
\* the id of the row is one an OpenStreetMap row lists in that column; an
\* id listed under another column, or an id missing on either side, drops
\* no city row.
C27_OnlyClaimedRowsDropped ==
    pc \in {"osm_selection", "selected"} =>
        \A d \in DOMAIN city_loaded : \A k \in 1..Len(city_loaded[d]) :
            DroppedByReference(d, k) =>
                \E f \in RefColumns(city_loaded[d][k]) :
                    ClaimedInOsm(f, city_loaded[d][k][f])

\* what the code does: the missing ids of both sides are made the text
\* "<NA>" before they are compared (ref_cols_to_str on the city side,
\* str(tag_str) on the other), so a city row without id is dropped as soon
\* as an OpenStreetMap row that has a ref value has none in that column.
C27_MissingIdsMatch ==
    pc \in {"osm_selection", "selected"} =>
        \A d \in DOMAIN city_loaded : \A k \in 1..Len(city_loaded[d]) :
            DroppedByReference(d, k) <=>
                \E f \in RefColumns(city_loaded[d][k]) :
                    \/ ClaimedInOsm(f, city_loaded[d][k][f])
                    \/ /\ city_loaded[d][k][f] = Chars("<NA>")
                       /\ MissingListedUnder(f)

\* a piece of street furniture without id, and an OpenStreetMap row that
\* refers to rack "1" and to no street furniture: the furniture row is gone
C27_Witness ==
    /\ pc = "osm_selection"
    /\ Len(osm_combined) = 1
    /\ osm_combined[1].ref_racks_objectid = Chars("1")
    /\ osm_combined[1].ref_furniture_id = NASeq
    /\ Len(city_loaded["street-furniture-bicycle-parking"]) = 1
    /\ city_loaded["street-furniture-bicycle-parking"][1].ref_furniture_id
          = Chars("<NA>")
    /\ city_data["street-furniture-bicycle-parking"] = <<>>

\* the OpenStreetMap rows of a run with lockers: city lockers without and
\* with a ref, 200 m and 100 m from the origin, one 201 m away whose
\* operator is in lower case, a private locker, a locker of no known
\* operator and a city rack without ref at the origin
LockerOsmRows ==
    {Osm(Chars("City of Toronto"), "lockers", NASeq, NASeq, Point(200, 0)),
     Osm(Chars("City of Toronto"), "lockers", Chars("r9"), NASeq, Point(100, 0)),
     Osm(Chars("city of toronto"), "lockers", NASeq, NASeq, Point(201, 0)),
     Osm(Chars("Toronto Parking Authority"), "lockers", NASeq, NASeq, Point(0, 0)),
     Osm(NASeq, "lockers", NASeq, NASeq, Point(0, 0)),
     Osm(Chars("City of Toronto"), "rack", NASeq, NASeq, Point(0, 0))}

MaxLockerOsm == 2

\* the city lockers of a run: at the origin and 401 m from it
RunLockerPositions == {Point(0, 0), Point(401, 0)}

\* run_pipeline from the city data selection on, with a rack of each rack
\* dataset, one bollard and lockers on both sides
InitLockersRun ==
    /\ pc = "city_data_selection"
    /\ error = "none"
    /\ radius = LockersDefaultRadius
    /\ city_loaded = LoadPipelineCityData(
          <<DatasetRack(1, Point(0, 0), "bicycle-parking-high-capacity-outdoor")>>,
          <<DatasetRack(1, Point(0, 0), "bicycle-parking-racks")>>,
          <<Bollard(1, Point(0, 0), "no", 2)>>)
    /\ city_data = city_loaded
    /\ \E n \in 0..MaxLockerOsm : \E o \in [1..n -> LockerOsmRows] :
          osm_combined = o
    /\ \E n \in 1..MaxLockers : \E g \in [1..n -> RunLockerPositions] :
          lockers = [k \in 1..n |-> Locker(g[k])]
    /\ city_exclusions = <<>>
    /\ id_lists = <<>>
    /\ osm_centroid = <<>>
    /\ lockers_unmapped = <<>>
    /\ city_unclustered_combined = <<>>
    /\ city_full = <<>>
    /\ all_sources = <<>>
    /\ NoGrouping
    /\ NoFiles
    /\ SingleRun

SpecLockersRun == InitLockersRun /\ [][NextPipeline]_vars

\* the city lockers drop_mapped_city_lockers has not returned
SuppressedLockers == {row \in Range(lockers) : row \notin Range(lockers_unmapped)}

\* the rows of all_sources that come from osm_centroid: those after the
\* rows of city_full
OsmRowsOfAllSources ==
    SubSeq(all_sources, Len(city_full) + 1, Len(city_full) + Len(osm_centroid))

\* the frame of OpenStreetMap rows holds a locker operated by the city
\* within the radius of the city locker
HoldsJustification(df, locker) ==
    \E k \in 1..Len(df) :
        /\ IsSelected(osm_city_lockers_mask(df[k]))
        /\ Dist2(locker.geometry, df[k].geometry)
              <= LockersDefaultRadius * LockersDefaultRadius

\* C28: for every city locker that drop_mapped_city_lockers does not
\* return, a locker of OpenStreetMap operated by the city and within the
\* radius is among the OpenStreetMap rows kept and in the combined set:
\* the filter of the OpenStreetMap rows keeps the row that made the city
\* locker go.
C28_SuppressedLockerStaysMapped ==
    /\ pc \in {"lockers_dropped", "rings_clustered", "racks_deduplicated",
               "combined"} =>
          \A locker \in SuppressedLockers :
              HoldsJustification(osm_centroid, locker)
    /\ pc = "combined" =>
          \A locker \in SuppressedLockers :
              HoldsJustification(OsmRowsOfAllSources, locker)

\* the locker at the origin is gone for a city locker without ref 200 m
\* away, the one 401 m from the origin for a city locker 201 m from the
\* origin; both OpenStreetMap lockers are in the combined set
C28_Witness ==
    /\ pc = "combined"
    /\ Len(lockers) = 2
    /\ lockers[1].geometry = Point(0, 0)
    /\ lockers[2].geometry = Point(401, 0)
    /\ lockers_unmapped = <<>>
    /\ Len(osm_combined) = 2
    /\ osm_combined[1].geometry = Point(200, 0)
    /\ osm_combined[1].ref_racks_objectid = NASeq
    /\ osm_combined[2].geometry = Point(201, 0)
    /\ Len(osm_centroid) = 2
    /\ Len(OsmRowsOfAllSources) = 2

\* values of the argument radius of group_proximate_racks: the default,
\* a smaller and a larger one
RadiusSamples == {10, RacksDefaultRadius, 36}

MaxRadiusRacks == 2

\* group_proximate_racks called with a radius of the caller's choice
InitRacksRadius ==
    /\ pc = "group_proximate_racks"
    /\ error = "none"
    /\ radius \in RadiusSamples
    /\ \E n \in 0..MaxRadiusRacks :
         \E g \in [1..n -> RackPositions],
            src \in [1..n -> RackSources],
            cap \in [1..n -> RackCapacities] :
              racks = [k \in 1..n |-> Rack(k, g[k], src[k], cap[k])]
    /\ out_racks = <<>>
    /\ racks_members = <<>>
    /\ rings = <<>>
    /\ out_rings = <<>>
    /\ rings_members = <<>>
    /\ NoSelection
    /\ NoDownstream
    /\ NoFiles
    /\ SingleRun

SpecRacksRadius == InitRacksRadius /\ [][NextRacks]_vars

\* the racks of two sources within r of each other are returned as one
\* row, and the racks returned as one row are joined by steps of at most r
MergedWithin(r) ==
    /\ \A i, j \in 1..Len(racks) :
          (/\ i # j
           /\ racks[i].source # racks[j].source
           /\ Dist2(racks[i].geometry, racks[j].geometry) <= r * r)
              => \E m \in Range(racks_members) : {i, j} \subseteq m
    /\ \A m \in Range(racks_members) : \A i \in m :
          m \subseteq ChainFrom(racks, {i}, r)

\* C29: group_proximate_racks groups by the radius it is called with: for
\* every value r of the argument, two racks are neighbours exactly when
\* they are at most r apart.
C29_RadiusArgumentUsed ==
    pc = "racks_returned" => MergedWithin(radius)

\* what the code does: DBSCAN is built with eps=30.0 at line 106, and the
\* argument is read nowhere
C29_RadiusIsThirty ==
    pc = "racks_returned" => MergedWithin(RacksEps)

\* called with radius 36 on two racks of two sources 36 m apart, the
\* operation returns them apart
C29_Witness ==
    /\ pc = "racks_returned"
    /\ radius = 36
    /\ Len(racks) = 2
    /\ racks[1].source # racks[2].source
    /\ Dist2(racks[1].geometry, racks[2].geometry) = 36 * 36
    /\ racks_members = <<{1}, {2}>>

----------------------------------------------------------------------------
(* run_update on every dataset of the pipeline: the loops of               *)
(* data_pipeline.py lines 208-216, 241-249 and 274-281.                    *)

\* the datasets of the three source files, each with the wrapper the loop
\* builds for it (BikeDataToronto, BikeDataOSM, BikeLockersToronto)
UpdatedDatasets ==
    {<<"BikeDataToronto", "bicycle-parking-high-capacity-outdoor">>,
     <<"BikeDataToronto", "bicycle-parking-racks">>,
     <<"BikeDataToronto", "bicycle-parking-bike-stations-indoor">>,
     <<"BikeDataToronto", "street-furniture-bicycle-parking">>,
     <<"BikeDataOSM", "osm_bicycle_parking_city_of_toronto">>,
     <<"BikeLockersToronto", "toronto_lockers">>}

MaxUpdated == 2

BikeData(dataset, last_updated, features) ==
    [wrapper |-> dataset[1], dataset_name |-> dataset[2],
     last_updated |-> last_updated, response_geojson |-> features]

InitUpdateAll ==
    /\ pc = "run_update"
    /\ error = "none"
    /\ radius = LockersDefaultRadius
    /\ NoGrouping
    /\ NoSelection
    /\ NoDownstream
    /\ SingleRun
    /\ save_call = <<>>
    /\ \E archive \in BOOLEAN :
          archive_name = archive_name_of(archive, IsoDates[MaxDates])
    /\ \E n \in 1..MaxUpdated :
         \E d \in [1..n -> UpdatedDatasets], u \in [1..n -> LastUpdatedSamples],
            f \in [1..n -> FeatureSamples] :
              datasets = [k \in 1..n |-> BikeData(d[k], u[k], f[k])]
    /\ dataset_index = 1
    /\ statuses = <<>>
    /\ fs_dirs \in UpdateDirStates
    /\ fs_files = <<>>
    /\ fs_writes = <<>>

\* one turn of a loop: the wrapper is built, run_update is called on it and
\* its status recorded
CallRunUpdate ==
    /\ pc = "run_update"
    /\ dataset_index <= Len(datasets)
    /\ \E now \in Clock :
         LET bike_data == datasets[dataset_index]
             dataset_status == StatusOf(statuses, bike_data.dataset_name)
             updated == run_update(FileSystem(fs_dirs, fs_files, fs_writes),
                                   bike_data, dataset_status, archive_name, now)
         IN /\ fs_dirs' = updated.fs.dirs
            /\ fs_files' = updated.fs.files
            /\ fs_writes' = updated.fs.writes
            /\ error' = updated.fs.error
            /\ statuses' = (bike_data.dataset_name :> updated.status) @@ statuses
            /\ IF updated.fs.error = "none"
               THEN pc' = "run_update" /\ dataset_index' = dataset_index + 1
               ELSE pc' = "update_raised" /\ UNCHANGED dataset_index
    /\ UNCHANGED <<radius, save_call, archive_name, datasets>>
    /\ UNCHANGED <<grouping_vars, selection_vars, downstream_vars, runs_vars>>

NextUpdateAll == CallRunUpdate

SpecUpdateAll == InitUpdateAll /\ [][NextUpdateAll]_vars

\* the conversion module written for a dataset: the one whose _dataset_name
\* is the name of the dataset
OwnModule(dataset_name) ==
    CASE dataset_name = "bicycle-parking-high-capacity-outdoor" ->
            <<"conversions", "_bicycle_parking_high_capacity_outdoor">>
      [] dataset_name = "bicycle-parking-racks" ->
            <<"conversions", "_bicycle_parking_racks">>
      [] dataset_name = "bicycle-parking-bike-stations-indoor" ->
            <<"conversions", "_bicycle_parking_bike_stations_indoor">>
      [] dataset_name = "street-furniture-bicycle-parking" ->
            <<"conversions", "_street_furniture_bicycle_parking">>
      [] dataset_name = "osm_bicycle_parking_city_of_toronto" ->
            <<"conversions", "_osm_bicycle_parking_city_of_toronto">>
      [] dataset_name = "toronto_lockers" ->
            <<"conversions", "_toronto_lockers">>

\* the datasets run_update has got to lines 176-177 with: those it has
\* returned for, and the one it raised on after the source file was saved
Resolved ==
    {k \in 1..Len(datasets) :
        \/ k < dataset_index
        \/ /\ k = dataset_index
           /\ pc = "update_raised"
           /\ error # "FileNotFoundError"}

\* C30: for every dataset run_update handles (the four city datasets, the
\* OpenStreetMap dataset and toronto_lockers) get_filter and get_transform
\* return the filter_properties and the transform_properties of the module
\* of that dataset, and no call fails on a missing entry.
C30_RegistryResolvesEveryDataset ==
    /\ error # "AttributeError"
    /\ \A k \in Resolved :
          /\ get_filter(datasets[k].dataset_name).function =
                OwnModule(datasets[k].dataset_name) \o <<"filter_properties">>
          /\ get_transform(datasets[k].dataset_name).function =
                OwnModule(datasets[k].dataset_name) \o <<"transform_properties">>

\* what the code does: the five datasets _get_map names resolve to their
\* modules; for toronto_lockers it returns None, and run_update ends in
\* AttributeError once the source file is saved
C30_LockersNotRegistered ==
    \A k \in Resolved :
        IF datasets[k].dataset_name = "toronto_lockers"
        THEN /\ pc = "update_raised"
             /\ error = "AttributeError"
             /\ k = dataset_index
             /\ sfp \o <<"toronto_lockers.geojson">> \in DOMAIN fs_files
             /\ ofp \o <<"toronto_lockers-normalized.geojson">>
                   \notin DOMAIN fs_files
        ELSE /\ get_filter(datasets[k].dataset_name).function =
                   OwnModule(datasets[k].dataset_name) \o <<"filter_properties">>
             /\ get_transform(datasets[k].dataset_name).function =
                   OwnModule(datasets[k].dataset_name)
                      \o <<"transform_properties">>

\* the OpenStreetMap dataset is updated, then the lockers: the source file
\* of the lockers is saved and the run ends in AttributeError
C30_Witness ==
    /\ pc = "update_raised"
    /\ error = "AttributeError"
    /\ dataset_index = 2
    /\ datasets[1].dataset_name = "osm_bicycle_parking_city_of_toronto"
    /\ datasets[2].dataset_name = "toronto_lockers"
    /\ sfp \o <<"toronto_lockers.geojson">> \in DOMAIN fs_files
    /\ ofp \o <<"osm_bicycle_parking_city_of_toronto-normalized.geojson">>
          \in DOMAIN fs_files

====
